---- MODULE Spec2Model ----
(***************************************************************************)
(* Detection-window to audio-coverage alignment of the SanctSound client:  *)
(* the audio coverage index (listAudioInFolder, listAudioAcross), the      *)
(* minimal-cover selector (minimalFilesForWindows) and the clip planner    *)
(* (clipGroups) of juce_port/Source/SanctSoundClient.cpp, with the window  *)
(* builders of previewGroup (HOUR, DAY, EVENT), the column inference of    *)
(* the presence tables and the file name parser, and the buttons,          *)
(* background threads and callbacks of MainComponent                       *)
(* (juce_port/Source/SanctSoundClient.h).                                  *)
(* Instants are milliseconds, as juce::Time::toMilliseconds().             *)
(***************************************************************************)
EXTENDS Integers, Sequences, FiniteSets, TLC

VARIABLES
    lines,          \* object names returned by the folder listings, in listing order
    preferFolder,   \* preferFolder argument of listAudioAcross ("" when none)
    windows,        \* detection windows of the previewed group, <<start, end>> pairs
    tmin, tmax,     \* query range handed to listAudioAcross
    folderRows,     \* what listAudioInFolder returned for each folder
    audioRows,      \* the merged coverage index (juce::Array<AudioHour>)
    outNames,       \* minimalFilesForWindows: selected basenames
    outUrls,        \* minimalFilesForWindows: selected urls
    rows,           \* minimalFilesForWindows: per-window NeededFileRow
    unmatchedCount, \* minimalFilesForWindows: windows without a predecessor
    pc              \* position of previewGroup

VARIABLES
    groups,             \* clipGroups: the group names to clip
    cache,              \* clipGroups: group name -> windows of its preview, or NoCache
    selectedBasenames,  \* clipGroups: the basenames selected for clipping
    local,              \* the local index (juce::Array<LocalAudio>)
    cpc,                \* position of clipGroups
    gi, wi,             \* position in groups and in the windows of the group
    manifest,           \* the rows of the group in work
    written, skipped,   \* the counters of the group in work
    summary,            \* the ClipSummary to return
    manifestFiles,      \* group name -> rows written to its clips_manifest.csv
    tempFiles,          \* the temporary part files that exist
    outFiles,           \* the clip files that exist
    work,               \* locals of the window in work
    calls               \* tool invocations made for the window in work

VARIABLES
    mode,               \* previewGroup: "HOUR", "DAY" or "EVENT"
    onlyLongRuns,       \* previewGroup: the long-runs policy of HOUR mode
    localCsvs,          \* previewGroup: the CSV artifacts of the group, as tables
    ci,                 \* position in localCsvs
    combined,           \* combinedHours, combinedDays or combinedEvents
    thrown,             \* what() of the exception that ended previewGroup, or ""
    wpc                 \* position of the window builder

VARIABLES
    table,              \* column inference: the table looked at
    timeCol,            \* column inference: the datetime column found
    presenceCol,        \* column inference: the presence column found
    ipc                 \* position of the column inference

VARIABLES
    fileName,           \* parseAudioStartFromName: the name, as characters
    outUtc,             \* parseAudioStartFromName: result
    npc                 \* position of the file name parser

VARIABLES
    buttons,            \* MainComponent: which of the four buttons are enabled
    groupEntries,       \* MainComponent::groups: the sets listed and those ticked
    fileEntries,        \* MainComponent::files: whether the list holds (selected) files
    previewCache,       \* MainComponent::previewCache: the group names with an entry
    tasks,              \* the detached background threads
    mq                  \* the callbacks posted to the message thread, in order

previewVars == <<lines, preferFolder, windows, tmin, tmax, folderRows, audioRows,
                 outNames, outUrls, rows, unmatchedCount, pc>>

clipVars == <<groups, cache, selectedBasenames, local, cpc, gi, wi, manifest,
              written, skipped, summary, manifestFiles, tempFiles, outFiles,
              work, calls>>

builderVars == <<mode, onlyLongRuns, localCsvs, ci, combined, thrown, wpc>>

inferVars == <<table, timeCol, presenceCol, ipc>>

nameVars == <<fileName, outUtc, npc>>

guiVars == <<buttons, groupEntries, fileEntries, previewCache, tasks, mq>>

vars == <<previewVars, clipVars, builderVars, inferVars, nameVars, guiVars>>

----------------------------------------------------------------------------
(* Bounds of the model *)

MaxFiles == 3
MaxWindows == 2

----------------------------------------------------------------------------
(* Time *)

SecondMs == 1000
HourMs == 3600000
HalfHourMs == HourMs \div 2
DayMs == 24 * HourMs
LeftBoundaryMs == 6 * 3600 * 1000
NoTime == 0 - 1

timeLessThan(a, b) == a < b
timeLessThanOrEqual(a, b) == a <= b
HasValue(t) == t # NoTime

----------------------------------------------------------------------------
(* The parts of the program that are not running *)

NoColumn == 0 - 1

BuilderIdle ==
    /\ mode = "EVENT"
    /\ onlyLongRuns = FALSE
    /\ localCsvs = <<>>
    /\ ci = 1
    /\ combined = <<>>
    /\ thrown = ""
    /\ wpc = "idle"

InferIdle ==
    /\ table = [ header |-> <<>>, rows |-> <<>> ]
    /\ timeCol = NoColumn
    /\ presenceCol = NoColumn
    /\ ipc = "idle"

\* the start a caller holds before the parser has written one
NoStart == [ ok |-> FALSE, days |-> 0, seconds |-> 0 ]

NameIdle ==
    /\ fileName = <<>>
    /\ outUtc = NoStart
    /\ npc = "idle"

\* no background thread
NoTask == [ kind |-> "none", todo |-> <<>>, at |-> "idle" ]

MaxTasks == 2
MaxQueue == 2

\* the window as MainComponent's constructor leaves it
GuiStart ==
    /\ buttons = [ list |-> TRUE, preview |-> FALSE, download |-> FALSE, clip |-> FALSE ]
    /\ groupEntries = [ listed |-> {}, selected |-> {} ]
    /\ fileEntries = FALSE
    /\ previewCache = {}
    /\ tasks = [ s \in 1..MaxTasks |-> NoTask ]
    /\ mq = <<>>

----------------------------------------------------------------------------
(* parseAudioStartFromName.  A file name is a sequence of characters; the  *)
(* two regular expressions are anchored at the end of the name by "$", so  *)
(* regex_search matches exactly when the last characters of the name have  *)
(* the shape of the pattern.  The names carry no directory part, so the    *)
(* basename is the name.  time_t is 64 bits wide; an instant is kept as    *)
(* whole days since 1970-01-01 and seconds of that day.                    *)

Digits == << "0", "1", "2", "3", "4", "5", "6", "7", "8", "9" >>

IsDigit(c) == \E i \in 1..Len(Digits) : Digits[i] = c

DigitValue(c) == (CHOOSE i \in 1..Len(Digits) : Digits[i] = c) - 1

\* std::regex::icase, for the letters the two patterns contain
ToLower(c) ==
    CASE c = "T" -> "t" [] c = "Z" -> "z"
      [] c = "F" -> "f" [] c = "L" -> "l" [] c = "A" -> "a" [] c = "C" -> "c"
      [] c = "W" -> "w" [] c = "V" -> "v"
      [] OTHER -> c

LastChars(s, n) == SubSeq(s, Len(s) - n + 1, Len(s))

EndsWithIgnoreCase(s, suffix) ==
    /\ Len(s) >= Len(suffix)
    /\ \A i \in 1..Len(suffix) : ToLower(LastChars(s, Len(suffix))[i]) = suffix[i]

\* \.(flac|wav)$ : the length of the matched extension, 0 when none matches
ExtensionLength(s) ==
    IF EndsWithIgnoreCase(s, << ".", "f", "l", "a", "c" >>) THEN 5
    ELSE IF EndsWithIgnoreCase(s, << ".", "w", "a", "v" >>) THEN 4
    ELSE 0

AllDigits(s) == \A i \in 1..Len(s) : IsDigit(s[i])

\* _(\d{8}T\d{6}Z)\.(flac|wav)$ : the first capture, <<>> when no match
MatchRe1(s) ==
    LET ext == ExtensionLength(s)
        stem == SubSeq(s, 1, Len(s) - ext)
        iso == LastChars(stem, 16)
    IN  IF /\ ext > 0
           /\ Len(stem) >= 17
           /\ stem[Len(stem) - 16] = "_"
           /\ AllDigits(SubSeq(iso, 1, 8))
           /\ ToLower(iso[9]) = "t"
           /\ AllDigits(SubSeq(iso, 10, 15))
           /\ ToLower(iso[16]) = "z"
        THEN iso
        ELSE <<>>

\* _(\d{12})\.(flac|wav)$ : the first capture, <<>> when no match
MatchRe2(s) ==
    LET ext == ExtensionLength(s)
        stem == SubSeq(s, 1, Len(s) - ext)
        d == LastChars(stem, 12)
    IN  IF /\ ext > 0
           /\ Len(stem) >= 13
           /\ stem[Len(stem) - 12] = "_"
           /\ AllDigits(d)
        THEN d
        ELSE <<>>

\* a %4d or %2d conversion over digits
RECURSIVE ScanInt(_)
ScanInt(s) ==
    IF s = <<>> THEN 0
    ELSE 10 * ScanInt(SubSeq(s, 1, Len(s) - 1)) + DigitValue(s[Len(s)])

\* sscanf(iso, "%4d%2d%2dT%2d%2d%2dZ"): the literal T of the format is
\* compared as it is, so after a "t" only three fields are converted
ScanIso(iso) ==
    IF iso[9] = "T"
    THEN << ScanInt(SubSeq(iso, 1, 4)), ScanInt(SubSeq(iso, 5, 6)),
            ScanInt(SubSeq(iso, 7, 8)), ScanInt(SubSeq(iso, 10, 11)),
            ScanInt(SubSeq(iso, 12, 13)), ScanInt(SubSeq(iso, 14, 15)) >>
    ELSE << ScanInt(SubSeq(iso, 1, 4)), ScanInt(SubSeq(iso, 5, 6)),
            ScanInt(SubSeq(iso, 7, 8)) >>

\* sscanf(d, "%2d%2d%2d%2d%2d%2d")
ScanShort(d) == [ k \in 1..6 |-> ScanInt(SubSeq(d, 2 * k - 1, 2 * k)) ]

IsLeapYear(y) == y % 4 = 0 /\ (y % 100 # 0 \/ y % 400 = 0)

\* timegm: fields out of their range are carried into the next larger one
ss_timegm(year, mon, mday, hour, minute, sec) ==
    LET y == year + (mon \div 12)
        m == mon % 12
        LeapDaysBefore(z) == ((z - 1) \div 4) - ((z - 1) \div 100) + ((z - 1) \div 400)
        DaysBeforeYear == 365 * (y - 1970) + LeapDaysBefore(y) - LeapDaysBefore(1970)
        DaysBeforeMonth == << 0, 31, 59, 90, 120, 151, 181, 212, 243, 273, 304, 334 >>
        yday == DaysBeforeMonth[m + 1] + (IF IsLeapYear(y) /\ m >= 2 THEN 1 ELSE 0)
        secs == hour * 3600 + minute * 60 + sec
    IN  [ days |-> DaysBeforeYear + yday + (mday - 1) + (secs \div 86400),
          seconds |-> secs % 86400 ]

\* tt > 0
Positive(tt) == tt.days > 0 \/ (tt.days = 0 /\ tt.seconds > 0)

Parsed(tt) == [ ok |-> TRUE, days |-> tt.days, seconds |-> tt.seconds ]

PivotYear(YY) == IF YY <= 69 THEN 2000 + YY ELSE 1900 + YY

FromShort(s) ==
    LET d == MatchRe2(s)
        f == ScanShort(d)
        tt == ss_timegm(PivotYear(f[1]), f[2] - 1, f[3], f[4], f[5], f[6])
    IN  IF d # <<>> /\ Positive(tt) THEN Parsed(tt) ELSE NoStart

parseAudioStartFromName(fileName_) ==
    LET iso == MatchRe1(fileName_)
        f == ScanIso(iso)
        tt == ss_timegm(f[1], f[2] - 1, f[3], f[4], f[5], f[6])
    IN  IF iso # <<>> /\ Len(f) = 6 /\ Positive(tt) THEN Parsed(tt)
        ELSE FromShort(fileName_)

----------------------------------------------------------------------------
(* The objects a listing can return.  ObjectNames is in the order of       *)
(* juce::StringArray::sort(true), which ignores case; the time stamp a     *)
(* name embeds is read by parseAudioStartFromName, which fails on          *)
(* "w_notes.flac".  Object names differ in case only for one pair.         *)

ObjectNames ==
    << "w_notes.flac",
       "x_700102000000.flac", "x_700102010000.flac", "x_700102070000.flac", "x_700102080000.flac",
       "X_700102080000.flac",
       "y_700102070000.flac",
       "z_700102070000.flac", "z_700102073000.flac" >>

NameSet == {ObjectNames[i] : i \in 1..Len(ObjectNames)}

NameRank(n) == CHOOSE i \in 1..Len(ObjectNames) : ObjectNames[i] = n

Folders == << "ci01_01", "ci01_02" >>

FolderRank(f) == CHOOSE i \in 1..Len(Folders) : Folders[i] = f

FolderOfObject(n) ==
    IF n \in {"z_700102070000.flac", "z_700102073000.flac"} THEN Folders[2] ELSE Folders[1]

UrlOf(n) == <<FolderOfObject(n), n>>

UrlRank(u) == FolderRank(u[1]) * (Len(ObjectNames) + 1) + NameRank(u[2])

\* what two names that are equal ignoring case have in common
toLowerCase(n) == IF n = "X_700102080000.flac" THEN "x_700102080000.flac" ELSE n

\* the characters of a listed name
NameChars(n) ==
    CASE n = "w_notes.flac" ->
           << "w", "_", "n", "o", "t", "e", "s", ".", "f", "l", "a", "c" >>
      [] n = "x_700102000000.flac" ->
           << "x", "_", "7", "0", "0", "1", "0", "2", "0", "0", "0", "0", "0", "0", ".", "f", "l", "a", "c" >>
      [] n = "x_700102010000.flac" ->
           << "x", "_", "7", "0", "0", "1", "0", "2", "0", "1", "0", "0", "0", "0", ".", "f", "l", "a", "c" >>
      [] n = "x_700102070000.flac" ->
           << "x", "_", "7", "0", "0", "1", "0", "2", "0", "7", "0", "0", "0", "0", ".", "f", "l", "a", "c" >>
      [] n = "x_700102080000.flac" ->
           << "x", "_", "7", "0", "0", "1", "0", "2", "0", "8", "0", "0", "0", "0", ".", "f", "l", "a", "c" >>
      [] n = "X_700102080000.flac" ->
           << "X", "_", "7", "0", "0", "1", "0", "2", "0", "8", "0", "0", "0", "0", ".", "f", "l", "a", "c" >>
      [] n = "y_700102070000.flac" ->
           << "y", "_", "7", "0", "0", "1", "0", "2", "0", "7", "0", "0", "0", "0", ".", "f", "l", "a", "c" >>
      [] n = "z_700102070000.flac" ->
           << "z", "_", "7", "0", "0", "1", "0", "2", "0", "7", "0", "0", "0", "0", ".", "f", "l", "a", "c" >>
      [] n = "z_700102073000.flac" ->
           << "z", "_", "7", "0", "0", "1", "0", "2", "0", "7", "3", "0", "0", "0", ".", "f", "l", "a", "c" >>

\* the start parseAudioStartFromName reads from a listed name, as
\* juce::Time::toMilliseconds gives it, NoTime when the name does not parse
AudioStartOf(n) ==
    CASE n = "x_700102000000.flac" -> DayMs
      [] n = "x_700102010000.flac" -> DayMs + HourMs
      [] n = "x_700102070000.flac" -> DayMs + 7 * HourMs
      [] n = "y_700102070000.flac" -> DayMs + 7 * HourMs
      [] n = "z_700102070000.flac" -> DayMs + 7 * HourMs
      [] n = "z_700102073000.flac" -> DayMs + 7 * HourMs + HalfHourMs
      [] n = "x_700102080000.flac" -> DayMs + 8 * HourMs
      [] n = "X_700102080000.flac" -> DayMs + 8 * HourMs
      [] OTHER -> NoTime

\* the same start, computed by the parser from the characters of the name
StartMillis(n) ==
    LET start == parseAudioStartFromName(NameChars(n))
    IN  IF start.ok THEN (start.days * 86400 + start.seconds) * SecondMs ELSE NoTime

ListedStartsParsed == \A n \in NameSet : AudioStartOf(n) = StartMillis(n)

----------------------------------------------------------------------------
(* Sorting.  juce::Array::sort(sorter, false) and std::sort do not keep    *)
(* the order of elements that compare equal: every arrangement that is     *)
(* sorted under the comparator is a possible result.                       *)

compareElements(a, b) ==
    LET diff == a.startUtc - b.startUtc
    IN  IF diff < 0 THEN 0 - 1
        ELSE IF diff > 0 THEN 1
        ELSE FolderRank(a.folder) - FolderRank(b.folder)

\* lt is the set of index pairs <<i, j>> with arr[i] ordered before arr[j]
RECURSIVE SortedArrangements(_, _, _)
SortedArrangements(arr, idx, lt) ==
    IF idx = {} THEN { <<>> }
    ELSE UNION { { <<arr[m]>> \o rest :
                     rest \in SortedArrangements(arr, idx \ {m}, lt) } :
                 m \in { i \in idx : \A j \in idx : <<j, i>> \notin lt } }

SortAudioHours(arr) ==
    SortedArrangements(arr, DOMAIN arr,
        { p \in (DOMAIN arr) \X (DOMAIN arr) :
            compareElements(arr[p[1]], arr[p[2]]) < 0 })

----------------------------------------------------------------------------
(* listAudioInFolder *)

AudioHour(n, folderName) ==
    [ url |-> UrlOf(n), fname |-> n, folder |-> folderName,
      startUtc |-> AudioStartOf(n),
      endUtc |-> AudioStartOf(n) + HourMs ]

NoLeft == [ fname |-> "" ]

\* one iteration of the loop over the listing lines
ScanLine(acc, n, folderName, tmn, tmx) ==
    LET startUtc == AudioStartOf(n)
    IN  IF startUtc = NoTime THEN acc
        ELSE IF HasValue(tmn) /\ timeLessThan(startUtc, tmn)
        THEN IF acc.left = NoLeft \/ timeLessThan(acc.left.startUtc, startUtc)
             THEN [acc EXCEPT !.left = AudioHour(n, folderName)]
             ELSE acc
        ELSE IF HasValue(tmx) /\ timeLessThan(tmx, startUtc) THEN acc
        ELSE [acc EXCEPT !.out = Append(@, AudioHour(n, folderName))]

RECURSIVE ScanLines(_, _, _, _, _, _)
ScanLines(acc, ls, i, folderName, tmn, tmx) ==
    IF i > Len(ls) THEN acc
    ELSE ScanLines(ScanLine(acc, ls[i], folderName, tmn, tmx),
                   ls, i + 1, folderName, tmn, tmx)

\* a left-boundary rule that reaches one hour too far
IncludeLeft_SevenHours(left, tmn) ==
    IF HasValue(tmn)
    THEN LET diff == tmn - left.startUtc
         IN  diff >= 0 /\ diff <= LeftBoundaryMs + HourMs
    ELSE TRUE

\* the left-boundary rule
IncludeLeft(left, tmn) ==
    IF HasValue(tmn)
    THEN LET diff == tmn - left.startUtc
         IN  diff >= 0 /\ diff <= LeftBoundaryMs
    ELSE TRUE

WithLeft(acc, tmn) ==
    IF acc.left # NoLeft /\ IncludeLeft(acc.left, tmn)
    THEN Append(acc.out, acc.left)
    ELSE acc.out

\* a coverage end that ignores the next entry of the folder
CoverageEnd_AlwaysHour(out, i) == out[i].startUtc + HourMs

\* the coverage end of entry i of a sorted folder listing
CoverageEnd(out, i) ==
    IF i + 1 <= Len(out) /\ out[i + 1].folder = out[i].folder
    THEN IF ~timeLessThan(out[i].startUtc, out[i + 1].startUtc)
         THEN out[i].startUtc + SecondMs
         ELSE out[i + 1].startUtc
    ELSE out[i].startUtc + HourMs

AssignEnds(out) ==
    [ i \in 1..Len(out) |-> [out[i] EXCEPT !.endUtc = CoverageEnd(out, i)] ]

\* the results listAudioInFolder can return for the lines of one folder
listAudioInFolder(ls, folderName, tmn, tmx) ==
    LET acc == ScanLines([out |-> <<>>, left |-> NoLeft], ls, 1, folderName, tmn, tmx)
    IN  { AssignEnds(sorted) : sorted \in SortAudioHours(WithLeft(acc, tmn)) }

----------------------------------------------------------------------------
(* listAudioAcross *)

LinesOfFolder(ls, folderName) ==
    SelectSeq(ls, LAMBDA n : FolderOfObject(n) = folderName)

\* the order in which the folders are listed: the preferred folder first
OrderedFolders(prefer) ==
    IF prefer # "" /\ \E i \in 1..Len(Folders) : Folders[i] = prefer
    THEN <<prefer>> \o SelectSeq(Folders, LAMBDA f : f # prefer)
    ELSE Folders

FolderSet == { Folders[i] : i \in 1..Len(Folders) }

\* the loop over the folders: one result of listAudioInFolder for each
FolderResults(ls, tmn, tmx) ==
    LET results(f) == listAudioInFolder(LinesOfFolder(ls, f), f, tmn, tmx)
    IN  { fr \in [ FolderSet -> UNION { results(f) : f \in FolderSet } ] :
            \A f \in FolderSet : fr[f] \in results(f) }

RECURSIVE addArrays(_, _, _)
addArrays(fr, ordered, i) ==
    IF i > Len(ordered) THEN <<>>
    ELSE fr[ordered[i]] \o addArrays(fr, ordered, i + 1)

\* the results listAudioAcross can return: the folders' results and the merged index
listAudioAcross(ls, prefer, tmn, tmx) ==
    UNION { { [ folders |-> fr, all |-> sorted ] :
                sorted \in SortAudioHours(addArrays(fr, OrderedFolders(prefer), 1)) } :
            fr \in FolderResults(ls, tmn, tmx) }

----------------------------------------------------------------------------
(* minimalFilesForWindows *)

\* std::upper_bound: the number of leading elements that are not greater than value
RECURSIVE UpperBoundLoop(_, _, _, _)
UpperBoundLoop(starts, value, first, count) ==
    IF count <= 0 THEN first
    ELSE LET step == count \div 2
             it   == first + step
         IN  IF ~(value < starts[it + 1])
             THEN UpperBoundLoop(starts, value, it + 1, count - (step + 1))
             ELSE UpperBoundLoop(starts, value, first, step)

upper_bound(starts, value) == UpperBoundLoop(starts, value, 0, Len(starts))

\* a pick that never adds the successor
pick_NoSuccessor(files, start, end) ==
    LET starts == [ i \in 1..Len(files) |-> files[i].startUtc ]
        index  == upper_bound(starts, start)
    IN  IF index < 1 THEN <<>> ELSE <<index>>

\* a pick that adds the successor without looking at the predecessor's end
pick_AlwaysSuccessor(files, start, end) ==
    LET starts == [ i \in 1..Len(files) |-> files[i].startUtc ]
        index  == upper_bound(starts, start)
    IN  IF index < 1 THEN <<>>
        ELSE IF index + 1 <= Len(files) THEN <<index, index + 1>>
        ELSE <<index>>

\* a pick that goes on along the index until the window is covered
pick_UntilCovered(files, start, end) ==
    LET starts == [ i \in 1..Len(files) |-> files[i].startUtc ]
        index  == upper_bound(starts, start)
        more   == { k \in index..Len(files) :
                      \A m \in index..(k - 1) : files[m].endUtc < end }
    IN  IF index < 1 THEN <<>>
        ELSE [ k \in 1..Cardinality(more) |-> index + k - 1 ]

\* the lambda pick: positions (1-based) in files of the recordings kept for [start, end)
pick(files, start, end) ==
    LET starts == [ i \in 1..Len(files) |-> files[i].startUtc ]
        index  == upper_bound(starts, start)
    IN  IF index < 1 THEN <<>>
        ELSE IF files[index].endUtc >= end THEN <<index>>
        ELSE IF index + 1 <= Len(files) THEN <<index, index + 1>>
        ELSE <<index>>

NeededFileRow(files, w) ==
    LET idxs == pick(files, w[1], w[2])
    IN  [ start |-> w[1], end |-> w[2],
          names |-> [ k \in 1..Len(idxs) |-> files[idxs[k]].fname ],
          urls  |-> [ k \in 1..Len(idxs) |-> files[idxs[k]].url ] ]

RECURSIVE Flatten(_)
Flatten(seqs) == IF seqs = <<>> THEN <<>> ELSE Head(seqs) \o Flatten(Tail(seqs))

\* juce::StringArray::removeDuplicates(true): a string that equals an earlier
\* one ignoring case goes; lower[i] is s[i] in lower case
removeDuplicates(s, lower) ==
    LET kept == { i \in 1..Len(s) : \A j \in 1..(i - 1) : lower[j] # lower[i] }
        nth(k) == CHOOSE i \in kept : Cardinality({ j \in kept : j < i }) = k - 1
    IN  [ k \in 1..Cardinality(kept) |-> s[nth(k)] ]

sortNames(s) ==
    [ i \in 1..Len(s) |->
        CHOOSE x \in {s[k] : k \in 1..Len(s)} :
            Cardinality({ k \in 1..Len(s) : NameRank(s[k]) < NameRank(x) }) = i - 1 ]

sortUrls(s) ==
    [ i \in 1..Len(s) |->
        CHOOSE x \in {s[k] : k \in 1..Len(s)} :
            Cardinality({ k \in 1..Len(s) : UrlRank(s[k]) < UrlRank(x) }) = i - 1 ]

minimalFilesForWindows(files, wins) ==
    IF files = <<>> \/ wins = <<>>
    THEN [ outUrls |-> <<>>, outNames |-> <<>>, rows |-> <<>>, unmatchedCount |-> 0 ]
    ELSE LET perWindow == [ i \in 1..Len(wins) |-> NeededFileRow(files, wins[i]) ]
             allUrls == Flatten([ i \in 1..Len(wins) |-> perWindow[i].urls ])
             allNames == Flatten([ i \in 1..Len(wins) |-> perWindow[i].names ])
         IN  [ outUrls  |-> sortUrls(removeDuplicates(allUrls,
                                [ k \in DOMAIN allUrls |->
                                    << allUrls[k][1], toLowerCase(allUrls[k][2]) >> ])),
               outNames |-> sortNames(removeDuplicates(allNames,
                                [ k \in DOMAIN allNames |-> toLowerCase(allNames[k]) ])),
               rows     |-> perWindow,
               unmatchedCount |->
                   Cardinality({ i \in 1..Len(wins) : perWindow[i].names = <<>> }) ]

----------------------------------------------------------------------------
(* The inputs of a preview *)

Listings ==
    { s \in UNION { [1..n -> NameSet] : n \in 0..MaxFiles } :
        \A i, j \in DOMAIN s : i # j => s[i] # s[j] }

WindowStarts == { DayMs + 7 * HourMs, DayMs + 7 * HourMs + HalfHourMs, DayMs + 8 * HourMs }
WindowLengths == { HalfHourMs, HourMs }
WindowSet == { <<s, s + d>> : s \in WindowStarts, d \in WindowLengths }

\* windows come out of the builders sorted by (start, end) and without duplicates
WindowLess(a, b) == a[1] < b[1] \/ (a[1] = b[1] /\ a[2] < b[2])

SortedWindows(S) ==
    [ i \in 1..Cardinality(S) |->
        CHOOSE w \in S : Cardinality({ v \in S : WindowLess(v, w) }) = i - 1 ]

WindowLists == { SortedWindows(S) : S \in { T \in SUBSET WindowSet : Cardinality(T) <= MaxWindows } }

----------------------------------------------------------------------------
(* The state of clipGroups before it is called *)

NoCache == [ cached |-> FALSE, windows |-> <<>> ]
PreviewCache(ws) == [ cached |-> TRUE, windows |-> ws ]
NoManifest == [ opened |-> FALSE, rows |-> <<>> ]
NoWork == [ current |-> 0, next |-> 0, errMessage |-> "", sourceNames |-> <<>> ]
NewSummary == [ totalWindows |-> 0, written |-> 0, skipped |-> 0, manifestRows |-> <<>> ]
GroupNames == { "g1", "g2" }

ClipStart ==
    /\ local = <<>>
    /\ cpc = "begin"
    /\ gi = 1
    /\ wi = 1
    /\ manifest = <<>>
    /\ written = 0
    /\ skipped = 0
    /\ summary = NewSummary
    /\ manifestFiles = [ g \in GroupNames |-> NoManifest ]
    /\ tempFiles = {}
    /\ outFiles = {}
    /\ work = NoWork
    /\ calls = <<>>

ClipIdle ==
    /\ groups = <<>>
    /\ cache = [ g \in GroupNames |-> NoCache ]
    /\ selectedBasenames = <<>>
    /\ ClipStart

----------------------------------------------------------------------------
(* previewGroup: the query range, the listing and the selection *)

Init ==
    /\ lines \in Listings
    /\ preferFolder \in { "", Folders[2] }
    /\ windows \in WindowLists
    /\ tmin = NoTime
    /\ tmax = NoTime
    /\ folderRows = [ f \in FolderSet |-> <<>> ]
    /\ audioRows = <<>>
    /\ outNames = <<>>
    /\ outUrls = <<>>
    /\ rows = <<>>
    /\ unmatchedCount = 0
    /\ pc = "preview"
    /\ ClipIdle
    /\ BuilderIdle
    /\ InferIdle
    /\ NameIdle
    /\ GuiStart

\* the query range and the call of listAudioAcross
ListAudio ==
    /\ pc = "preview"
    /\ tmin' = IF windows = <<>> THEN NoTime ELSE windows[1][1]
    /\ tmax' = IF windows = <<>> THEN NoTime ELSE windows[Len(windows)][2]
    /\ IF windows = <<>>
       THEN UNCHANGED <<folderRows, audioRows>>
       ELSE \E r \in listAudioAcross(lines, preferFolder, tmin', tmax') :
                /\ folderRows' = r.folders
                /\ audioRows' = r.all
    /\ pc' = "listed"
    /\ UNCHANGED <<lines, preferFolder, windows, outNames, outUrls, rows, unmatchedCount>>
    /\ UNCHANGED <<clipVars, builderVars, inferVars, nameVars, guiVars>>

\* the call of minimalFilesForWindows
SelectFiles ==
    /\ pc = "listed"
    /\ LET r == minimalFilesForWindows(audioRows, windows)
       IN  /\ outNames' = r.outNames
           /\ outUrls' = r.outUrls
           /\ rows' = r.rows
           /\ unmatchedCount' = r.unmatchedCount
    /\ pc' = "selected"
    /\ UNCHANGED <<lines, preferFolder, windows, tmin, tmax, folderRows, audioRows>>
    /\ UNCHANGED <<clipVars, builderVars, inferVars, nameVars, guiVars>>

Next == ListAudio \/ SelectFiles

Spec == Init /\ [][Next]_vars

\* result.matchedWindows and result.unmatchedWindows of the PreviewResult
matchedWindows ==
    IF Len(windows) - unmatchedCount > 0 THEN Len(windows) - unmatchedCount ELSE 0
unmatchedWindows == unmatchedCount

----------------------------------------------------------------------------
(* Properties of the coverage index and of the selection *)

Selected == pc = "selected"
Listed == pc \in { "listed", "selected" }

WindowIds == 1..Len(windows)
RowIds == 1..Len(audioRows)

\* the window has a predecessor: an index entry that starts at or before it
HasPredecessor(w) == \E j \in RowIds : audioRows[j].startUtc <= w[1]

RowOfName(n) == CHOOSE j \in RowIds : audioRows[j].fname = n

\* the index entries a window is mapped to, in the order of the mapping
SelectedRows(i) == [ k \in 1..Len(rows[i].names) |-> audioRows[RowOfName(rows[i].names[k])] ]

\* C4: every window without a predecessor in the index, and every window
\* when the index is empty, is counted in unmatchedCount and has a
\* per-window row without identifiers.
C4_UnmatchedRecorded ==
    Selected =>
        /\ Len(rows) = Len(windows)
        /\ unmatchedCount = Cardinality({ i \in WindowIds : ~HasPredecessor(windows[i]) })
        /\ \A i \in WindowIds : ~HasPredecessor(windows[i]) => rows[i].names = <<>>

\* C5: a window that lies within one coverage interval of the index is
\* mapped to exactly one identifier.
C5_ContainedWindowOneIdentifier ==
    Selected /\ audioRows # <<>> =>
        \A i \in WindowIds :
            (\E j \in RowIds : /\ audioRows[j].startUtc <= windows[i][1]
                               /\ windows[i][2] <= audioRows[j].endUtc)
            => Len(rows[i].names) = 1

\* entries j and k are neighbours within their folder
AdjacentInFolder(j, k) ==
    /\ j < k
    /\ audioRows[j].folder = audioRows[k].folder
    /\ \A m \in RowIds : j < m /\ m < k => audioRows[m].folder # audioRows[j].folder

\* the window starts inside interval j and ends inside interval k
SpansTwo(w, j, k) ==
    /\ audioRows[j].startUtc <= w[1] /\ w[1] < audioRows[j].endUtc
    /\ audioRows[k].startUtc < w[2] /\ w[2] <= audioRows[k].endUtc

Covers(ivs, from, to) ==
    \A p \in { from } \cup { ivs[k].endUtc : k \in DOMAIN ivs } :
        from <= p /\ p < to =>
            \E k \in DOMAIN ivs : ivs[k].startUtc <= p /\ p < ivs[k].endUtc

Intersects(iv, from, to) == iv.startUtc < to /\ from < iv.endUtc

MinimalCover(ivs, w) ==
    /\ Covers(ivs, w[1], w[2])
    /\ \A k \in DOMAIN ivs : Intersects(ivs[k], w[1], w[2])

ReachesEnd(ivs, w) ==
    /\ ivs[Len(ivs)].endUtc >= w[2]
    /\ \A k \in 1..(Len(ivs) - 1) : ivs[k].endUtc = ivs[k + 1].startUtc

C8_FolderContiguous ==
    Listed =>
        \A f \in FolderSet : \A i \in 1..Len(folderRows[f]) :
            folderRows[f][i].endUtc =
                IF i < Len(folderRows[f])
                THEN folderRows[f][i + 1].startUtc
                ELSE folderRows[f][i].startUtc + HourMs

\* C8 amended: an entry ends where the next begins when the next starts
\* later, one second after its own start when the next starts at the same
\* instant, and the last entry ends one hour after its start.
C8_FolderContiguousOrClamped ==
    Listed =>
        \A f \in FolderSet : \A i \in 1..Len(folderRows[f]) :
            folderRows[f][i].endUtc =
                IF i < Len(folderRows[f])
                THEN IF folderRows[f][i].startUtc < folderRows[f][i + 1].startUtc
                     THEN folderRows[f][i + 1].startUtc
                     ELSE folderRows[f][i].startUtc + SecondMs
                ELSE folderRows[f][i].startUtc + HourMs

C8_Witness ==
    /\ Listed
    /\ \E f \in FolderSet :
        /\ Len(folderRows[f]) = 3
        /\ folderRows[f][1].startUtc = folderRows[f][2].startUtc
        /\ folderRows[f][2].startUtc < folderRows[f][3].startUtc

IsSortedIndex(files) ==
    \A i \in 1..(Len(files) - 1) :
        \/ files[i].startUtc < files[i + 1].startUtc
        \/ /\ files[i].startUtc = files[i + 1].startUtc
           /\ FolderRank(files[i].folder) <= FolderRank(files[i + 1].folder)

Reorderings(s) ==
    { [ i \in DOMAIN s |-> s[p[i]] ] :
        p \in { q \in [ DOMAIN s -> DOMAIN s ] : \A i, j \in DOMAIN s : i # j => q[i] # q[j] } }

\* C9: the merged index is sorted by start, ties by folder, and is a result
\* of every other order in which the same objects can be listed.
C9_SortedAndOrderIndependent ==
    pc = "listed" /\ windows # <<>> =>
        /\ IsSortedIndex(audioRows)
        /\ \A other \in Reorderings(lines) :
             \E r \in listAudioAcross(other, preferFolder, tmin, tmax) : r.all = audioRows

\* the listed objects of folder f whose name parses to a start before tmin
StartsBefore(f) ==
    { AudioStartOf(n) :
        n \in { lines[i] : i \in { k \in 1..Len(lines) :
                  /\ FolderOfObject(lines[k]) = f
                  /\ AudioStartOf(lines[k]) # NoTime
                  /\ AudioStartOf(lines[k]) < tmin } } }

Greatest(S) == CHOOSE x \in S : \A y \in S : y <= x

KeptBefore(f) == { i \in 1..Len(folderRows[f]) : folderRows[f][i].startUtc < tmin }

\* C10: of the recordings of a folder that start before tmin only the one
\* with the greatest start is kept, and only if it starts at most 6 hours
\* before tmin; a window that starts at tmin is matched to a recording that
\* starts at most 6 hours earlier and never to an earlier one.
C10_LeftBoundary ==
    Listed /\ windows # <<>> =>
        /\ \A f \in FolderSet :
            /\ Cardinality(KeptBefore(f)) <= 1
            /\ \A i \in KeptBefore(f) :
                /\ folderRows[f][i].startUtc = Greatest(StartsBefore(f))
                /\ tmin - folderRows[f][i].startUtc <= 6 * HourMs
            /\ (StartsBefore(f) # {} /\ tmin - Greatest(StartsBefore(f)) <= 6 * HourMs)
               => KeptBefore(f) # {}
        /\ Selected =>
            \A i \in WindowIds : windows[i][1] = tmin =>
                /\ (\E f \in FolderSet : KeptBefore(f) # {})
                     => i \in DOMAIN rows /\ rows[i].names # <<>>
                /\ i \in DOMAIN rows /\ rows[i].names # <<>> =>
                     tmin - AudioStartOf(rows[i].names[1]) <= 6 * HourMs

C10_Witness ==
    /\ Selected
    /\ \E i, j \in 1..Len(lines) :
        /\ tmin - AudioStartOf(lines[i]) = 7 * HourMs
        /\ tmin - AudioStartOf(lines[j]) = 6 * HourMs
    /\ \E i \in DOMAIN rows :
        /\ windows[i][1] = tmin
        /\ rows[i].names # <<>>
        /\ tmin - AudioStartOf(rows[i].names[1]) = 6 * HourMs

----------------------------------------------------------------------------
(* clipGroups: the local index *)

clipMinBytes == 10000
FallbackSeconds == 3600

\* what ffprobeDuration can report for the last local file: an error, or seconds
ProbeResults ==
    { [ err |-> TRUE, seconds |-> 0 ], [ err |-> FALSE, seconds |-> 1 ],
      [ err |-> FALSE, seconds |-> 1800 ], [ err |-> FALSE, seconds |-> 3600 ] }

LocalAudio(n) == [ name |-> n, start |-> AudioStartOf(n), end |-> NoTime ]

\* the selected basenames that exist as files and whose name parses
LocalCandidates(selected, present) ==
    LET kept == SelectSeq(selected,
                    LAMBDA n : n \in present /\ AudioStartOf(n) # NoTime)
    IN  [ i \in 1..Len(kept) |-> LocalAudio(kept[i]) ]

\* std::sort by start alone
SortLocal(arr) ==
    SortedArrangements(arr, DOMAIN arr,
        { p \in (DOMAIN arr) \X (DOMAIN arr) :
            timeLessThan(arr[p[1]].start, arr[p[2]].start) })

\* every file is taken to end a second after its start
LocalEnd_Clamped(loc, i, probe) == loc[i].start + SecondMs

LocalEnd(loc, i, probe) ==
    IF i + 1 <= Len(loc)
    THEN IF ~timeLessThan(loc[i].start, loc[i + 1].start)
         THEN loc[i].start + SecondMs
         ELSE loc[i + 1].start
    ELSE LET durationSeconds == IF probe.err \/ probe.seconds <= 1
                                THEN FallbackSeconds ELSE probe.seconds
         IN  loc[i].start + durationSeconds * SecondMs

\* the local indexes clipGroups can build
BuildLocal(selected, present) ==
    { [ i \in 1..Len(sorted) |-> [sorted[i] EXCEPT !.end = LocalEnd(sorted, i, probe)] ] :
        sorted \in SortLocal(LocalCandidates(selected, present)), probe \in ProbeResults }

\* the lambda coverAndNext: positions in local, 0 for nullptr
RECURSIVE coverAndNextLoop(_, _, _, _)
coverAndNextLoop(loc, ts, i, current) ==
    IF i > Len(loc) THEN [ current |-> current, next |-> 0 ]
    ELSE IF timeLessThanOrEqual(loc[i].start, ts)
         THEN coverAndNextLoop(loc, ts, i + 1, i)
         ELSE [ current |-> current, next |-> i ]

\* a file that starts exactly at ts does not cover it
coverAndNext_Strict(loc, ts) ==
    LET before == { i \in 1..Len(loc) : timeLessThan(loc[i].start, ts) }
        current == IF before = {} THEN 0 ELSE CHOOSE i \in before : \A j \in before : j <= i
    IN  [ current |-> current, next |-> IF current < Len(loc) THEN current + 1 ELSE 0 ]

coverAndNext(loc, ts) == coverAndNextLoop(loc, ts, 1, 0)

----------------------------------------------------------------------------
(* clipGroups: files and tools *)

selectedSet == { selectedBasenames[i] : i \in 1..Len(selectedBasenames) }

FileExists(files, path) == \E f \in files : f.path = path
FileSize(files, path) == (CHOOSE f \in files : f.path = path).size
\* the file is left where it is
DeleteFile_Keep(files, path) == files

DeleteFile(files, path) == { f \in files : f.path # path }
WriteFile(files, path, size) == DeleteFile(files, path) \cup { [ path |-> path, size |-> size ] }

Missing == 0 - 1

\* what one run of ffmpeg can leave behind: an exit status and the output
\* file (Missing: no file)
ToolOutcomes ==
    { [ failed |-> FALSE, size |-> sz ] : sz \in { Missing, clipMinBytes - 1, clipMinBytes } }
    \cup { [ failed |-> TRUE, size |-> sz ] : sz \in { Missing, clipMinBytes - 1 } }

AfterTool(files, path, outcome) ==
    IF outcome.size = Missing THEN DeleteFile(files, path)
    ELSE WriteFile(files, path, outcome.size)

ErrorOf(outcome) == IF outcome.failed THEN "ffmpeg failed" ELSE ""

ClipFile(grp, name, w) == << grp, name, w[1], w[2] >>

GroupWindows == cache[groups[gi]].windows
Window == GroupWindows[wi]

----------------------------------------------------------------------------
(* clipGroups: the steps *)

ClipRow(w, status, sourceNames, clipName) ==
    [ start |-> w[1], end |-> w[2], durationSeconds |-> w[2] - w[1],
      status |-> status, sourceNames |-> sourceNames, clipName |-> clipName ]

NoClip == <<>>

\* rows are added for written clips only
AddRow_OnlyWritten(status, sourceNames, clipName) ==
    IF status = "written"
    THEN /\ manifest' = Append(manifest, ClipRow(Window, status, sourceNames, clipName))
         /\ written' = written + 1
         /\ UNCHANGED skipped
    ELSE /\ skipped' = skipped + 1
         /\ UNCHANGED <<manifest, written>>

\* manifest.add(row) and the counter of the outcome
AddRow(status, sourceNames, clipName) ==
    /\ manifest' = Append(manifest, ClipRow(Window, status, sourceNames, clipName))
    /\ IF status = "written"
       THEN written' = written + 1 /\ UNCHANGED skipped
       ELSE skipped' = skipped + 1 /\ UNCHANGED written

\* the early return, the local index and the clips directory
Begin ==
    /\ cpc = "begin"
    /\ IF groups = <<>>
       THEN cpc' = "done" /\ UNCHANGED local
       ELSE /\ \E present \in SUBSET selectedSet :
                local' \in BuildLocal(selectedBasenames, present)
            /\ \E created \in BOOLEAN :
                cpc' = IF created THEN "group" ELSE "thrown"
    /\ UNCHANGED <<groups, cache, selectedBasenames, gi, wi, manifest, written,
                   skipped, summary, manifestFiles, tempFiles, outFiles, work, calls>>
    /\ UNCHANGED <<previewVars, builderVars, inferVars, nameVars, guiVars>>

\* the head of the loop over the groups
NextGroup ==
    /\ cpc = "group"
    /\ IF gi > Len(groups)
       THEN cpc' = "done" /\ UNCHANGED <<gi, wi, manifest, written, skipped>>
       ELSE IF ~cache[groups[gi]].cached
       THEN gi' = gi + 1 /\ UNCHANGED <<cpc, wi, manifest, written, skipped>>
       ELSE \E created \in BOOLEAN :
                IF created
                THEN /\ cpc' = "window"
                     /\ wi' = 1
                     /\ manifest' = <<>>
                     /\ written' = 0
                     /\ skipped' = 0
                     /\ UNCHANGED gi
                ELSE cpc' = "thrown" /\ UNCHANGED <<gi, wi, manifest, written, skipped>>
    /\ UNCHANGED <<groups, cache, selectedBasenames, local, summary, manifestFiles,
                   tempFiles, outFiles, work, calls>>
    /\ UNCHANGED <<previewVars, builderVars, inferVars, nameVars, guiVars>>

\* the body of the loop over the windows, up to the first call of a tool
PlanWindow ==
    /\ cpc = "window"
    /\ wi <= Len(GroupWindows)
    /\ summary' = [summary EXCEPT !.totalWindows = @ + 1]
    /\ LET w == Window
           cn == coverAndNext(local, w[1])
           current == cn.current
           next == cn.next
           skip(status, sourceNames) ==
               /\ AddRow(status, sourceNames, NoClip)
               /\ wi' = wi + 1
               /\ work' = NoWork
               /\ UNCHANGED cpc
           cut(position) ==
               /\ cpc' = position
               /\ work' = [ current |-> current, next |-> next, errMessage |-> "",
                            sourceNames |-> << local[current].name >> ]
               /\ UNCHANGED <<wi, manifest, written, skipped>>
       IN  IF current = 0 THEN skip("missing_source", <<>>)
           ELSE IF local[current].name \notin selectedSet
           THEN skip("not_selected", << local[current].name >>)
           ELSE IF w[2] - w[1] <= 0
           THEN skip("nonpositive_window", << local[current].name >>)
           ELSE IF ~timeLessThan(local[current].end, w[2]) \/ next = 0
           THEN cut("cut")
           ELSE IF local[next].name \notin selectedSet
           THEN skip("requires_next", << local[current].name, local[next].name >>)
           ELSE IF local[current].end - w[1] <= 0 \/ w[2] - local[next].start <= 0
           THEN skip("invalid_span", << local[current].name, local[next].name >>)
           ELSE cut("cutA")
    /\ calls' = <<>>
    /\ UNCHANGED <<groups, cache, selectedBasenames, local, gi, manifestFiles,
                   tempFiles, outFiles>>
    /\ UNCHANGED <<previewVars, builderVars, inferVars, nameVars, guiVars>>

OutFile == ClipFile(groups[gi], local[work.current].name, Window)

FfmpegCut(source, startMs, durationMs, out) ==
    [ tool |-> "ffmpegCut", source |-> source, start |-> startMs,
      duration |-> durationMs, out |-> out ]

\* the single-source branch: one ffmpegCut into the clip file
SingleCut ==
    /\ cpc = "cut"
    /\ \E outcome \in ToolOutcomes :
        /\ outFiles' = AfterTool(outFiles, OutFile, outcome)
        /\ work' = [work EXCEPT !.errMessage = ErrorOf(outcome)]
    /\ calls' = Append(calls, FfmpegCut(local[work.current].name,
                                        Window[1] - local[work.current].start,
                                        Window[2] - Window[1], OutFile))
    /\ cpc' = "check"
    /\ UNCHANGED <<groups, cache, selectedBasenames, local, gi, wi, manifest, written,
                   skipped, summary, manifestFiles, tempFiles>>
    /\ UNCHANGED <<previewVars, builderVars, inferVars, nameVars, guiVars>>

TempA == << "clip_a.wav", gi, wi >>
TempB == << "clip_b.wav", gi, wi >>

\* the next step is taken whatever the step before returned
StepAfter_Always(errMessage, step) == step

\* if (errMessage.isEmpty()) guards every step after the first
StepAfter(errMessage, step) == IF errMessage = "" THEN step ELSE "cleanup"

\* the two-source branch: ffmpegCut of the predecessor into tempA
CutPartA ==
    /\ cpc = "cutA"
    /\ \E outcome \in ToolOutcomes :
        /\ tempFiles' = AfterTool(tempFiles, TempA, outcome)
        /\ work' = [work EXCEPT !.errMessage = ErrorOf(outcome)]
        /\ cpc' = StepAfter(ErrorOf(outcome), "cutB")
    /\ calls' = Append(calls, FfmpegCut(local[work.current].name,
                                        Window[1] - local[work.current].start,
                                        local[work.current].end - Window[1], TempA))
    /\ UNCHANGED <<groups, cache, selectedBasenames, local, gi, wi, manifest, written,
                   skipped, summary, manifestFiles, outFiles>>
    /\ UNCHANGED <<previewVars, builderVars, inferVars, nameVars, guiVars>>

\* the two-source branch: ffmpegCut of the successor into tempB
CutPartB ==
    /\ cpc = "cutB"
    /\ \E outcome \in ToolOutcomes :
        /\ tempFiles' = AfterTool(tempFiles, TempB, outcome)
        /\ work' = [work EXCEPT !.errMessage = ErrorOf(outcome)]
        /\ cpc' = StepAfter(ErrorOf(outcome), "concat")
    /\ calls' = Append(calls, FfmpegCut(local[work.next].name, 0,
                                        Window[2] - local[work.next].start, TempB))
    /\ UNCHANGED <<groups, cache, selectedBasenames, local, gi, wi, manifest, written,
                   skipped, summary, manifestFiles, outFiles>>
    /\ UNCHANGED <<previewVars, builderVars, inferVars, nameVars, guiVars>>

\* the two-source branch: ffmpegConcat of the parts into the clip file; its
\* own list file is deleted before it returns
Concat ==
    /\ cpc = "concat"
    /\ \E outcome \in ToolOutcomes :
        /\ outFiles' = AfterTool(outFiles, OutFile, outcome)
        /\ work' = [work EXCEPT !.errMessage = ErrorOf(outcome)]
    /\ calls' = Append(calls, [ tool |-> "ffmpegConcat", wav1 |-> TempA,
                                wav2 |-> TempB, out |-> OutFile ])
    /\ cpc' = "cleanup"
    /\ UNCHANGED <<groups, cache, selectedBasenames, local, gi, wi, manifest, written,
                   skipped, summary, manifestFiles, tempFiles>>
    /\ UNCHANGED <<previewVars, builderVars, inferVars, nameVars, guiVars>>

\* a clean-up that is skipped when a tool failed
TempsAfterDelete_OnlyOnSuccess(files, errMessage) ==
    IF errMessage = "" THEN DeleteFile(DeleteFile(files, TempA), TempB) ELSE files

\* tempA.deleteFile(); tempB.deleteFile();
TempsAfterDelete(files, errMessage) == DeleteFile(DeleteFile(files, TempA), TempB)

\* the two-source branch: the parts are deleted
DeleteTemps ==
    /\ cpc = "cleanup"
    /\ tempFiles' = TempsAfterDelete(tempFiles, work.errMessage)
    /\ work' = [work EXCEPT !.sourceNames = Append(@, local[work.next].name)]
    /\ cpc' = "check"
    /\ UNCHANGED <<groups, cache, selectedBasenames, local, gi, wi, manifest, written,
                   skipped, summary, manifestFiles, outFiles, calls>>
    /\ UNCHANGED <<previewVars, builderVars, inferVars, nameVars, guiVars>>

\* the outcome of the tools decides the row of the window
CheckOutput ==
    /\ cpc = "check"
    /\ IF work.errMessage # ""
       THEN /\ outFiles' = DeleteFile(outFiles, OutFile)
            /\ AddRow("ffmpeg_error", work.sourceNames, NoClip)
       ELSE IF ~FileExists(outFiles, OutFile) \/ FileSize(outFiles, OutFile) < clipMinBytes
       THEN /\ outFiles' = DeleteFile(outFiles, OutFile)
            /\ AddRow("too_small", work.sourceNames, NoClip)
       ELSE /\ UNCHANGED outFiles
            /\ AddRow("written", work.sourceNames, OutFile)
    /\ wi' = wi + 1
    /\ cpc' = "window"
    /\ UNCHANGED <<groups, cache, selectedBasenames, local, gi, summary, manifestFiles,
                   tempFiles, work, calls>>
    /\ UNCHANGED <<previewVars, builderVars, inferVars, nameVars, guiVars>>

\* the counters of the last group replace those of the groups before
AddCounts_LastGroup(s, w, k, m) ==
    [s EXCEPT !.written = w, !.skipped = k, !.manifestRows = @ \o m]

\* summary.written += written; summary.skipped += skipped;
\* summary.manifestRows.addArray(manifest);
AddCounts(s, w, k, m) ==
    [s EXCEPT !.written = @ + w, !.skipped = @ + k, !.manifestRows = @ \o m]

\* after the last window: the counters are added up and the manifest is written
FinishGroup ==
    /\ cpc = "window"
    /\ wi > Len(GroupWindows)
    /\ summary' = AddCounts(summary, written, skipped, manifest)
    /\ \E opened \in BOOLEAN :
        IF opened
        THEN /\ manifestFiles' = [manifestFiles EXCEPT ![groups[gi]] =
                                        [ opened |-> TRUE, rows |-> manifest ]]
             /\ gi' = gi + 1
             /\ cpc' = "group"
        ELSE cpc' = "thrown" /\ UNCHANGED <<manifestFiles, gi>>
    /\ UNCHANGED <<groups, cache, selectedBasenames, local, wi, manifest, written,
                   skipped, tempFiles, outFiles, work, calls>>
    /\ UNCHANGED <<previewVars, builderVars, inferVars, nameVars, guiVars>>

----------------------------------------------------------------------------
(* The inputs of clipGroups *)

MaxSelected == 2

ClipNames == << "w_notes.flac", "x_700102070000.flac", "x_700102080000.flac", "y_700102070000.flac", "z_700102073000.flac" >>

\* selections of distinct basenames (MainComponent::handleClip adds each once)
Selections ==
    { SelectSeq(ClipNames, LAMBDA n : n \in S) :
        S \in { T \in SUBSET { ClipNames[i] : i \in 1..Len(ClipNames) } :
                  Cardinality(T) <= MaxSelected } }

ClipWindowSet ==
    { << DayMs + 7 * HourMs, DayMs + 7 * HourMs + HalfHourMs >>,
      << DayMs + 7 * HourMs + HalfHourMs, DayMs + 8 * HourMs + HalfHourMs >>,
      << DayMs + 8 * HourMs, DayMs + 8 * HourMs + HalfHourMs >> }

ClipWindowLists ==
    { SortedWindows(S) : S \in { T \in SUBSET ClipWindowSet : Cardinality(T) <= MaxWindows } }

PreviewIdle ==
    /\ lines = <<>>
    /\ preferFolder = ""
    /\ windows = <<>>
    /\ tmin = NoTime
    /\ tmax = NoTime
    /\ folderRows = [ f \in FolderSet |-> <<>> ]
    /\ audioRows = <<>>
    /\ outNames = <<>>
    /\ outUrls = <<>>
    /\ rows = <<>>
    /\ unmatchedCount = 0
    /\ pc = "preview"

InitClip ==
    /\ PreviewIdle
    /\ groups \in { <<>>, << "g1", "g2" >> }
    /\ cache \in [ GroupNames -> { NoCache } \cup { PreviewCache(ws) : ws \in ClipWindowLists } ]
    /\ selectedBasenames \in Selections
    /\ ClipStart
    /\ BuilderIdle
    /\ InferIdle
    /\ NameIdle
    /\ GuiStart

NextClip ==
    \/ Begin
    \/ NextGroup
    \/ PlanWindow
    \/ SingleCut
    \/ CutPartA
    \/ CutPartB
    \/ Concat
    \/ DeleteTemps
    \/ CheckOutput
    \/ FinishGroup

SpecClip == InitClip /\ [][NextClip]_vars

\* MainComponent: the preview of the group is cached with its windows, its
\* files are all selected, and Clip hands them to clipGroups
HandleClip ==
    /\ pc = "selected"
    /\ cpc = "begin"
    /\ groups = <<>>
    /\ outNames # <<>>
    /\ groups' = << "g1" >>
    /\ cache' = [cache EXCEPT !["g1"] = PreviewCache(windows)]
    /\ selectedBasenames' = outNames
    /\ UNCHANGED <<local, cpc, gi, wi, manifest, written, skipped, summary,
                   manifestFiles, tempFiles, outFiles, work, calls>>
    /\ UNCHANGED <<previewVars, builderVars, inferVars, nameVars, guiVars>>

\* a preview of one group, then the clips of that group
SpecSession == Init /\ [][Next \/ HandleClip \/ NextClip]_vars

\* the client runs one of its two operations: a preview or clipGroups
SpecClient == (Init \/ InitClip) /\ [][Next \/ NextClip]_vars

----------------------------------------------------------------------------
(* Properties of clipGroups *)

InWindows == cpc \in { "window", "cut", "cutA", "cutB", "concat", "cleanup", "check" }

Statuses ==
    { "missing_source", "not_selected", "nonpositive_window", "requires_next",
      "invalid_span", "ffmpeg_error", "too_small", "written" }

\* the rows are the rows of the first Len(rs) windows ws, one for each, in order
RowsOfWindows(rs, ws) ==
    /\ Len(rs) <= Len(ws)
    /\ \A k \in 1..Len(rs) :
        /\ rs[k].start = ws[k][1]
        /\ rs[k].end = ws[k][2]
        /\ rs[k].status \in Statuses

\* C1: the manifest of a group has exactly one row for each of its windows,
\* in window order, whatever the outcome of the window: one row for each
\* window done so far while the group is in work, and as many rows as
\* windows in every manifest written and for every cached group once
\* clipGroups has returned.
C1_OneRowPerWindow ==
    /\ InWindows =>
        /\ Len(manifest) = wi - 1
        /\ RowsOfWindows(manifest, GroupWindows)
    /\ \A g \in GroupNames : manifestFiles[g].opened =>
        /\ Len(manifestFiles[g].rows) = Len(cache[g].windows)
        /\ RowsOfWindows(manifestFiles[g].rows, cache[g].windows)
    /\ cpc = "done" =>
        \A i \in 1..Len(groups) : cache[groups[i]].cached => manifestFiles[groups[i]].opened

C1_Witness ==
    /\ cpc = "done"
    /\ \E g \in GroupNames :
        /\ manifestFiles[g].opened
        /\ \E j, k \in 1..Len(manifestFiles[g].rows) :
            /\ manifestFiles[g].rows[j].status = "written"
            /\ manifestFiles[g].rows[k].status \in { "ffmpeg_error", "too_small", "missing_source" }

\* C2: a row whose window ends after the end of its local predecessor is
\* written only if a selected successor is in the local index; without one
\* its status is requires_next or missing_source, no tool was called for it
\* and it names no clip.
C2_SpanningNeedsSuccessor ==
    InWindows =>
        \A k \in 1..Len(manifest) :
            LET cn == coverAndNext(local, manifest[k].start)
            IN  ( /\ cn.current # 0
                  /\ local[cn.current].end < manifest[k].end
                  /\ ~(cn.next # 0 /\ local[cn.next].name \in selectedSet) )
                => /\ manifest[k].status \in { "requires_next", "missing_source" }
                   /\ manifest[k].clipName = NoClip
                   /\ (k = wi - 1 /\ cpc = "window" => calls = <<>>)

\* C3: the temporary parts of a window exist only between its first cut and
\* the clean-up of the two-source branch: none exists when the row of the
\* window is decided and added, nor while another window is in work.
C3_TempsDeleted ==
    /\ \A f \in tempFiles : f.path \in { TempA, TempB }
    /\ cpc \notin { "cutB", "concat", "cleanup" } => tempFiles = {}

\* the two-source branch of a window ended in: a written clip, a failed
\* first cut that left a part behind, a failed concat, a clip too small
C3_Witness ==
    /\ cpc = "window"
    /\ tempFiles = {}
    /\ Len(manifest) >= 1
    /\ Len(manifest[Len(manifest)].sourceNames) = 2
    /\ Len(calls) = 3
    /\ manifest[Len(manifest)].status = "ffmpeg_error"

\* C20: when the row added for a window has the status ffmpeg_error or
\* too_small, the clip file of that window does not exist once the row is in
\* the manifest, and the window is counted as skipped and not as written.
C20_FailedClipRemoved ==
    [][ ( /\ Len(manifest') = Len(manifest) + 1
          /\ manifest'[Len(manifest')].status \in { "ffmpeg_error", "too_small" } )
        => /\ cpc = "check"
           /\ ~FileExists(outFiles', OutFile)
           /\ skipped' = skipped + 1
           /\ written' = written
           /\ manifest'[Len(manifest')].clipName = NoClip ]_vars

\* a tool failed or produced too little after it had left a clip file
\* behind, and the row of the window is in the manifest
C20_Witness ==
    /\ cpc = "window"
    /\ Len(manifest) >= 1
    /\ manifest[Len(manifest)].status \in { "ffmpeg_error", "too_small" }
    /\ Len(calls) >= 1
    /\ skipped >= 1
    /\ written >= 1
    /\ ~FileExists(outFiles, ClipFile(groups[gi], manifest[Len(manifest)].sourceNames[1],
                                      GroupWindows[wi - 1]))

----------------------------------------------------------------------------
(* CSV artifacts.  A table is what readCsvLoose returns: the fields of the *)
(* first non-blank line as header, the fields of the others as rows.  The  *)
(* cells are the texts below; the parsers are given by what they return    *)
(* for these texts.                                                        *)

max(a, b) == IF a >= b THEN a ELSE b
min(a, b) == IF a <= b THEN a ELSE b

T0000 == "1970-01-02T00:00:00Z"
T0100 == "1970-01-02T01:00:00Z"
T0130 == "1970-01-02T01:30:00Z"
T0200 == "1970-01-02T02:00:00Z"
T0400 == "1970-01-02T04:00:00Z"
T0500NextDay == "1970-01-03T05:00:00Z"

\* parseTimeUTCImpl: a text of digits only is read as epoch seconds, an
\* ISO-8601 text by juce::Time::fromISO8601; NoTime when it returns false
parseTimeUTC(text) ==
    CASE text = T0000 -> DayMs
      [] text = T0100 -> DayMs + HourMs
      [] text = T0130 -> DayMs + HourMs + HalfHourMs
      [] text = T0200 -> DayMs + 2 * HourMs
      [] text = T0400 -> DayMs + 4 * HourMs
      [] text = T0500NextDay -> 2 * DayMs + 5 * HourMs
      [] text = "0" -> 0
      [] text = "1" -> 1 * SecondMs
      [] text = "2" -> 2 * SecondMs
      [] text = "1800" -> 1800 * SecondMs
      [] OTHER -> NoTime

\* isNumeric: digits, '.', '-' and '+' only, and not blank
isNumeric(text) == text \in { "0", "1", "2", "1800" }

NoFlag == 0 - 1

\* parsePresenceFlag: the flag 0 or 1, NoFlag when it returns false
parsePresenceFlag(text) ==
    IF text = "" THEN NoFlag
    ELSE IF ~isNumeric(text) THEN NoFlag
    ELSE IF text = "0" THEN 0
    ELSE IF text = "1" THEN 1
    ELSE NoFlag

\* the header contains "present", "presence", "detect", "call", "heard" or "flag"
headerSuggestsPresence(name) == name \in { "flag", "presence" }

normaliseToHour(t) == (t \div HourMs) * HourMs
normaliseToDay(t) == (t \div DayMs) * DayMs

RECURSIVE maxColumnCountLoop(_, _, _)
maxColumnCountLoop(rs, i, maxCols) ==
    IF i > Len(rs) THEN maxCols
    ELSE maxColumnCountLoop(rs, i + 1, max(maxCols, Len(rs[i])))

maxColumnCount(header, rs) == maxColumnCountLoop(rs, 1, Len(header))

\* columns are counted from 0, as in the code
countDatetimeHits(column, rs) ==
    Cardinality({ i \in 1..Len(rs) :
                    /\ column < Len(rs[i])
                    /\ parseTimeUTC(rs[i][column + 1]) # NoTime })

\* (int) std::ceil(rowCount * 0.05)
CeilFivePercent(rowCount) == (rowCount * 5 + 99) \div 100

RECURSIVE detectDatetimeColumnLoop(_, _, _, _)
detectDatetimeColumnLoop(rs, col, maxCols, minHits) ==
    IF col >= maxCols THEN NoColumn
    ELSE IF countDatetimeHits(col, rs) >= minHits THEN col
    ELSE detectDatetimeColumnLoop(rs, col + 1, maxCols, minHits)

detectDatetimeColumn(header, rs) ==
    IF rs = <<>> THEN NoColumn
    ELSE LET rowCount == Len(rs)
             minHits == max(1, min(rowCount, max(3, CeilFivePercent(rowCount))))
         IN  detectDatetimeColumnLoop(rs, 0, maxColumnCount(header, rs), minHits)

Candidate(col, ones, invalid, valid, headerHint) ==
    [ column |-> col, ones |-> ones, invalid |-> invalid, valid |-> valid,
      headerHint |-> headerHint ]

NoCandidate == Candidate(NoColumn, 0, 0, 0, FALSE)

\* the header hint is not looked at
better_WithoutHint(lhs, rhs) ==
    IF lhs.column < 0 THEN TRUE
    ELSE IF rhs.column < 0 THEN FALSE
    ELSE IF lhs.ones # rhs.ones THEN rhs.ones > lhs.ones
    ELSE IF lhs.invalid # rhs.invalid THEN rhs.invalid < lhs.invalid
    ELSE rhs.valid > lhs.valid

\* the lambda better(lhs, rhs): rhs is to replace lhs
better(lhs, rhs) ==
    IF lhs.column < 0 THEN TRUE
    ELSE IF rhs.column < 0 THEN FALSE
    ELSE IF lhs.headerHint # rhs.headerHint THEN rhs.headerHint /\ ~lhs.headerHint
    ELSE IF lhs.ones # rhs.ones THEN rhs.ones > lhs.ones
    ELSE IF lhs.invalid # rhs.invalid THEN rhs.invalid < lhs.invalid
    ELSE rhs.valid > lhs.valid

\* the counts of one column
ColumnCounts(header, rs, col) ==
    LET cells == { i \in 1..Len(rs) : col < Len(rs[i]) }
        isValid(i) == parsePresenceFlag(rs[i][col + 1]) # NoFlag
    IN  Candidate(col,
                  Cardinality({ i \in cells : parsePresenceFlag(rs[i][col + 1]) = 1 }),
                  Cardinality({ i \in cells : ~isValid(i) /\ rs[i][col + 1] # "" }),
                  Cardinality({ i \in cells : isValid(i) }),
                  col < Len(header) /\ headerSuggestsPresence(header[col + 1]))

\* a column that detectPresenceColumn passes over
Rejected(c) ==
    \/ c.valid = 0
    \/ c.ones = 0
    \/ c.invalid > max(2, c.valid \div 2)

RECURSIVE detectPresenceColumnLoop(_, _, _, _, _)
detectPresenceColumnLoop(header, rs, skipCol, col, best) ==
    IF col >= maxColumnCount(header, rs) THEN best.column
    ELSE IF col = skipCol
    THEN detectPresenceColumnLoop(header, rs, skipCol, col + 1, best)
    ELSE LET candidate == ColumnCounts(header, rs, col)
         IN  IF Rejected(candidate)
             THEN detectPresenceColumnLoop(header, rs, skipCol, col + 1, best)
             ELSE detectPresenceColumnLoop(header, rs, skipCol, col + 1,
                                           IF better(best, candidate) THEN candidate
                                           ELSE best)

detectPresenceColumn(header, rs, skipCol) ==
    IF rs = <<>> THEN NoColumn
    ELSE detectPresenceColumnLoop(header, rs, skipCol, 0, NoCandidate)

----------------------------------------------------------------------------
(* previewGroup: the presence windows of HOUR and DAY mode *)

RECURSIVE SortTimes(_)
SortTimes(S) ==
    IF S = {} THEN <<>>
    ELSE LET least == CHOOSE t \in S : \A u \in S : timeLessThanOrEqual(t, u)
         IN  << least >> \o SortTimes(S \ { least })

Range(seq) == { seq[i] : i \in 1..Len(seq) }

NoError == ""

Returned(value) == [ what |-> NoError, value |-> value ]
Threw(what) == [ what |-> what, value |-> <<>> ]

\* the rows that give a point: both cells are there, the time stamp parses
\* and the flag is 1
FlaggedRows(csv, tCol, pCol) ==
    { i \in 1..Len(csv.rows) :
        /\ tCol < Len(csv.rows[i])
        /\ pCol < Len(csv.rows[i])
        /\ parseTimeUTC(csv.rows[i][tCol + 1]) # NoTime
        /\ parsePresenceFlag(csv.rows[i][pCol + 1]) = 1 }

\* parsePresenceHoursFromCsv and parsePresenceDaysFromCsv: the distinct
\* hours (days) of the flagged rows, ascending
parsePresenceFromCsv(csv, unit) ==
    IF csv.header = <<>> THEN Returned(<<>>)
    ELSE LET normalise(t) == IF unit = "hour" THEN normaliseToHour(t) ELSE normaliseToDay(t)
             tCol == detectDatetimeColumn(csv.header, csv.rows)
             pCol == detectPresenceColumn(csv.header, csv.rows, tCol)
         IN  IF tCol < 0 THEN Threw("Could not detect " \o unit \o " column")
             ELSE IF pCol < 0 THEN Threw("Could not detect presence column")
             ELSE Returned(SortTimes({ normalise(parseTimeUTC(csv.rows[i][tCol + 1])) :
                                         i \in FlaggedRows(csv, tCol, pCol) }))

parsePresenceHoursFromCsv(csv) == parsePresenceFromCsv(csv, "hour")
parsePresenceDaysFromCsv(csv) == parsePresenceFromCsv(csv, "date")

\* the loop over a parsed artifact: what is not yet in seenHours (seenDays)
\* is appended
RECURSIVE AppendUnseen(_, _, _)
AppendUnseen(acc, points, i) ==
    IF i > Len(points) THEN acc
    ELSE AppendUnseen(IF points[i] \in Range(acc) THEN acc ELSE Append(acc, points[i]),
                      points, i + 1)

PreviewWindow(start, end) == << start, end >>

RECURSIVE groupConsecutiveLoop(_, _, _, _, _, _)
groupConsecutiveLoop(points, step, i, start, prev, runs) ==
    IF i > Len(points) THEN Append(runs, PreviewWindow(start, prev + step))
    ELSE LET p == points[i]
             diff == p - prev
             off == IF diff - step >= 0 THEN diff - step ELSE step - diff
         IN  IF off <= 1
             THEN groupConsecutiveLoop(points, step, i + 1, start, p, runs)
             ELSE groupConsecutiveLoop(points, step, i + 1, p, p,
                                       Append(runs, PreviewWindow(start, prev + step)))

groupConsecutive(points, step) ==
    IF points = <<>> THEN <<>>
    ELSE groupConsecutiveLoop(points, step, 2, points[1], points[1], <<>>)

\* the first hour of the run only
expandRun_FirstHour(t, end, step) == << t >>

RECURSIVE expandRun(_, _, _)
expandRun(t, end, step) ==
    IF timeLessThan(t, end) THEN << t >> \o expandRun(t + step, end, step) ELSE <<>>

RECURSIVE expandRuns(_, _)
expandRuns(runs, step) ==
    IF runs = <<>> THEN <<>>
    ELSE expandRun(runs[1][1], runs[1][2], step) \o expandRuns(Tail(runs), step)

\* a run of every length passes
LongRun_Any(r) == TRUE

\* (r.end - r.start).inHours() >= 2.0
LongRun(r) == r[2] - r[1] >= 2 * HourMs

RunsToUse(runs, longOnly) ==
    IF longOnly THEN SelectSeq(runs, LongRun) ELSE runs

\* one window of the given length for each point
WindowsOf(points, length) == [ i \in 1..Len(points) |-> << points[i], points[i] + length >> ]

\* one artifact of HOUR mode is parsed
ParseHours ==
    /\ wpc = "parse"
    /\ mode = "HOUR"
    /\ ci <= Len(localCsvs)
    /\ LET hours == parsePresenceHoursFromCsv(localCsvs[ci])
       IN  IF hours.what # NoError
           THEN /\ thrown' = hours.what
                /\ wpc' = "thrown"
                /\ UNCHANGED <<combined, ci>>
           ELSE /\ combined' = AppendUnseen(combined, hours.value, 1)
                /\ ci' = ci + 1
                /\ UNCHANGED <<thrown, wpc>>
    /\ UNCHANGED <<mode, onlyLongRuns, localCsvs>>
    /\ UNCHANGED <<previewVars, clipVars, inferVars, nameVars, guiVars>>

\* one artifact of DAY mode is parsed
ParseDays ==
    /\ wpc = "parse"
    /\ mode = "DAY"
    /\ ci <= Len(localCsvs)
    /\ LET days == parsePresenceDaysFromCsv(localCsvs[ci])
       IN  IF days.what # NoError
           THEN /\ thrown' = days.what
                /\ wpc' = "thrown"
                /\ UNCHANGED <<combined, ci>>
           ELSE /\ combined' = AppendUnseen(combined, days.value, 1)
                /\ ci' = ci + 1
                /\ UNCHANGED <<thrown, wpc>>
    /\ UNCHANGED <<mode, onlyLongRuns, localCsvs>>
    /\ UNCHANGED <<previewVars, clipVars, inferVars, nameVars, guiVars>>

\* the windows of HOUR mode: sorted hours, runs, the long-runs policy, and
\* the hours of the runs again
BuildHour ==
    /\ wpc = "parse"
    /\ mode = "HOUR"
    /\ ci > Len(localCsvs)
    /\ LET hoursArray == SortTimes(Range(combined))
           runs == groupConsecutive(hoursArray, HourMs)
           expanded == expandRuns(RunsToUse(runs, onlyLongRuns), HourMs)
       IN  /\ windows' = WindowsOf(expanded, HourMs)
           /\ tmin' = IF expanded = <<>> THEN NoTime ELSE expanded[1]
           /\ tmax' = IF expanded = <<>> THEN NoTime ELSE expanded[Len(expanded)] + HourMs
    /\ wpc' = "built"
    /\ UNCHANGED <<mode, onlyLongRuns, localCsvs, ci, combined, thrown>>
    /\ UNCHANGED <<lines, preferFolder, folderRows, audioRows, outNames, outUrls, rows,
                   unmatchedCount, pc>>
    /\ UNCHANGED <<clipVars, inferVars, nameVars, guiVars>>

\* the windows of DAY mode: one day for each flagged day
BuildDay ==
    /\ wpc = "parse"
    /\ mode = "DAY"
    /\ ci > Len(localCsvs)
    /\ LET combinedDays == SortTimes(Range(combined))
       IN  /\ windows' = WindowsOf(combinedDays, DayMs)
           /\ tmin' = IF combinedDays = <<>> THEN NoTime ELSE combinedDays[1]
           /\ tmax' = IF combinedDays = <<>> THEN NoTime
                      ELSE combinedDays[Len(combinedDays)] + DayMs
    /\ wpc' = "built"
    /\ UNCHANGED <<mode, onlyLongRuns, localCsvs, ci, combined, thrown>>
    /\ UNCHANGED <<lines, preferFolder, folderRows, audioRows, outNames, outUrls, rows,
                   unmatchedCount, pc>>
    /\ UNCHANGED <<clipVars, inferVars, nameVars, guiVars>>

----------------------------------------------------------------------------
(* previewGroup: the windows of EVENT mode *)

kFallbackSeconds == 60

\* parseIsoOrPlainUTC: ISO-8601 texts by juce::Time::fromISO8601; NoTime when
\* it returns false
parseIsoOrPlainUTC(value) ==
    CASE value = T0100 -> DayMs + HourMs
      [] value = T0130 -> DayMs + HourMs + HalfHourMs
      [] value = T0200 -> DayMs + 2 * HourMs
      [] OTHER -> NoTime

\* the lambda findColumn: the first column whose name contains one of the keys
RECURSIVE findColumn(_, _, _)
findColumn(columns, keyed, idx) ==
    IF idx >= Len(columns) THEN NoColumn
    ELSE IF columns[idx + 1] \in keyed THEN idx
    ELSE findColumn(columns, keyed, idx + 1)

\* the names that contain "start", "timestamp", "time" or "utc"
StartKeyed == { "start_time", "end_time" }
\* the names that contain "end"
EndKeyed == { "end_time" }
\* the names that contain "duration", "dur" or "length"
DurationKeyed == { "duration" }

\* the seconds read from a duration cell that is not empty
DurationOfCell(raw) ==
    CASE raw = "1800" -> 1800          \* getDoubleValue() > 0
      [] raw = "PT90S" -> 90           \* the digits between PT and S
      [] raw = "0:00:00" -> 0          \* hh * 3600 + mm * 60 + ss
      [] OTHER -> kFallbackSeconds

\* a span that is not positive is left as it is
EventOfRow_NoCoercion(row, startIdx, endIdx, durIdx) ==
    LET startUTC == parseIsoOrPlainUTC(row[startIdx + 1])
        haveEnd == /\ endIdx >= 0
                   /\ endIdx < Len(row)
                   /\ parseIsoOrPlainUTC(row[endIdx + 1]) # NoTime
        seconds == IF durIdx >= 0 /\ durIdx < Len(row) /\ row[durIdx + 1] # ""
                   THEN DurationOfCell(row[durIdx + 1])
                   ELSE kFallbackSeconds
    IN  << startUTC, IF haveEnd THEN parseIsoOrPlainUTC(row[endIdx + 1])
                     ELSE startUTC + seconds * SecondMs >>

\* the event of a row whose start parses
EventOfRow(row, startIdx, endIdx, durIdx) ==
    LET startUTC == parseIsoOrPlainUTC(row[startIdx + 1])
        haveEnd == /\ endIdx >= 0
                   /\ endIdx < Len(row)
                   /\ parseIsoOrPlainUTC(row[endIdx + 1]) # NoTime
        seconds == IF durIdx >= 0 /\ durIdx < Len(row) /\ row[durIdx + 1] # ""
                   THEN DurationOfCell(row[durIdx + 1])
                   ELSE kFallbackSeconds
        endUTC == IF haveEnd THEN parseIsoOrPlainUTC(row[endIdx + 1])
                  ELSE startUTC + seconds * SecondMs
    IN  << startUTC, IF endUTC <= startUTC THEN startUTC + kFallbackSeconds * SecondMs
                     ELSE endUTC >>

\* std::sort with the comparator on (start, end): events that compare equal
\* are the same pair, so there is one sorted arrangement
SortEvents(evs) ==
    [ i \in 1..Len(evs) |->
        CHOOSE w \in Range(evs) :
            /\ Cardinality({ k \in 1..Len(evs) : WindowLess(evs[k], w) }) < i
            /\ i <= Cardinality({ k \in 1..Len(evs) : ~WindowLess(w, evs[k]) }) ]

\* the duplicates stay
unique_Keep(evs) == evs

\* erase(std::unique(...)): an event equal to the one before it goes
unique(evs) ==
    LET kept == { i \in 1..Len(evs) : i = 1 \/ evs[i] # evs[i - 1] }
        nth(k) == CHOOSE i \in kept : Cardinality({ j \in kept : j < i }) = k - 1
    IN  [ k \in 1..Cardinality(kept) |-> evs[nth(k)] ]

\* parseEventsFromCsv: ok is its return value, events what it leaves in out
parseEventsFromCsv(csv) ==
    LET startIdx == findColumn(csv.header, StartKeyed, 0)
        endIdx == findColumn(csv.header, EndKeyed, 0)
        durIdx == findColumn(csv.header, DurationKeyed, 0)
        good == SelectSeq(csv.rows,
                    LAMBDA row : /\ Len(row) > startIdx
                                 /\ parseIsoOrPlainUTC(row[startIdx + 1]) # NoTime)
        events == [ k \in 1..Len(good) |-> EventOfRow(good[k], startIdx, endIdx, durIdx) ]
    IN  IF csv.header = <<>> \/ startIdx < 0 \/ events = <<>>
        THEN [ ok |-> FALSE, events |-> <<>> ]
        ELSE [ ok |-> TRUE, events |-> unique(SortEvents(events)) ]

\* one artifact of EVENT mode is parsed; one that gives nothing is passed over
ParseEvents ==
    /\ wpc = "parse"
    /\ mode = "EVENT"
    /\ ci <= Len(localCsvs)
    /\ LET parsed == parseEventsFromCsv(localCsvs[ci])
       IN  combined' = IF parsed.ok THEN combined \o parsed.events ELSE combined
    /\ ci' = ci + 1
    /\ UNCHANGED <<mode, onlyLongRuns, localCsvs, thrown, wpc>>
    /\ UNCHANGED <<previewVars, clipVars, inferVars, nameVars, guiVars>>

\* the windows of EVENT mode: the events sorted by (start, end), each once
BuildEvent ==
    /\ wpc = "parse"
    /\ mode = "EVENT"
    /\ ci > Len(localCsvs)
    /\ LET combinedEvents == unique(SortEvents(combined))
       IN  /\ windows' = combinedEvents
           /\ tmin' = IF combinedEvents = <<>> THEN NoTime ELSE combinedEvents[1][1]
           /\ tmax' = IF combinedEvents = <<>> THEN NoTime
                      ELSE combinedEvents[Len(combinedEvents)][2]
    /\ wpc' = "built"
    /\ UNCHANGED <<mode, onlyLongRuns, localCsvs, ci, combined, thrown>>
    /\ UNCHANGED <<lines, preferFolder, folderRows, audioRows, outNames, outUrls, rows,
                   unmatchedCount, pc>>
    /\ UNCHANGED <<clipVars, inferVars, nameVars, guiVars>>

----------------------------------------------------------------------------
(* parseCsvWindows *)

\* findColumnByAliases with startAliases, with endAliases; findDurationColumn
StartAliased == { "start_time" }
EndAliased == { "end_time" }
DurationNamed == { "duration" }

\* std::max(0.0, getDoubleValue()) of a numeric cell
NumericSeconds(raw) ==
    CASE raw = "1800" -> 1800
      [] raw = "2" -> 2
      [] raw = "1" -> 1
      [] OTHER -> 0

CsvWindow(start, end, source) == << start, end, source >>

\* the window of a row whose start parses; source is the position of the file
WindowOfRow(row, startCol, endCol, durationCol, source) ==
    LET startTime == parseTimeUTC(row[startCol + 1])
        haveEnd == /\ endCol >= 0
                   /\ endCol < Len(row)
                   /\ parseTimeUTC(row[endCol + 1]) # NoTime
        numeric == IF durationCol >= 0 /\ durationCol < Len(row) /\ isNumeric(row[durationCol + 1])
                   THEN NumericSeconds(row[durationCol + 1])
                   ELSE 0
        durationSeconds == IF numeric <= 0 THEN 60 ELSE numeric
        endTime == IF haveEnd THEN parseTimeUTC(row[endCol + 1])
                   ELSE startTime + durationSeconds * SecondMs
    IN  CsvWindow(startTime,
                  IF ~timeLessThan(startTime, endTime) THEN startTime + SecondMs ELSE endTime,
                  source)

\* the windows of one file, in row order
RECURSIVE WindowsOfFile(_, _, _, _, _, _)
WindowsOfFile(csv, startCol, endCol, durationCol, source, rowIdx) ==
    IF rowIdx > Len(csv.rows) THEN <<>>
    ELSE LET row == csv.rows[rowIdx]
             rest == WindowsOfFile(csv, startCol, endCol, durationCol, source, rowIdx + 1)
         IN  IF startCol >= Len(row) \/ parseTimeUTC(row[startCol + 1]) = NoTime
             THEN rest
             ELSE << WindowOfRow(row, startCol, endCol, durationCol, source) >> \o rest

\* the loop over the files, before the sort
RECURSIVE parseCsvWindowsLoop(_, _)
parseCsvWindowsLoop(csvFiles, k) ==
    IF k > Len(csvFiles) THEN Returned(<<>>)
    ELSE LET csv == csvFiles[k]
             startCol == findColumn(csv.header, StartAliased, 0)
             endCol == findColumn(csv.header, EndAliased, 0)
             durationCol == IF endCol < 0 THEN findColumn(csv.header, DurationNamed, 0)
                            ELSE NoColumn
             rest == parseCsvWindowsLoop(csvFiles, k + 1)
         IN  IF csv.rows = <<>> THEN rest
             ELSE IF startCol < 0 THEN Threw("No usable start column")
             ELSE IF rest.what # NoError THEN rest
             ELSE Returned(WindowsOfFile(csv, startCol, endCol, durationCol, k, 1)
                           \o rest.value)

\* the std::sort by (start, source) that ends parseCsvWindows
SortCsvWindows(arr) ==
    SortedArrangements(arr, DOMAIN arr,
        { q \in (DOMAIN arr) \X (DOMAIN arr) :
            \/ timeLessThan(arr[q[1]][1], arr[q[2]][1])
            \/ (arr[q[1]][1] = arr[q[2]][1] /\ arr[q[1]][3] < arr[q[2]][3]) })

\* parseCsvWindows applied to the artifacts
ParseCsvWindows ==
    /\ wpc = "parse"
    /\ mode = "EVENT"
    /\ ci = 1
    /\ LET parsed == parseCsvWindowsLoop(localCsvs, 1)
       IN  IF parsed.what # NoError
           THEN /\ thrown' = parsed.what
                /\ wpc' = "csvThrown"
                /\ UNCHANGED combined
           ELSE /\ combined' \in SortCsvWindows(parsed.value)
                /\ wpc' = "csvWindows"
                /\ UNCHANGED thrown
    /\ UNCHANGED <<mode, onlyLongRuns, localCsvs, ci>>
    /\ UNCHANGED <<previewVars, clipVars, inferVars, nameVars, guiVars>>

----------------------------------------------------------------------------
(* The CSV artifacts of a previewed group *)

MaxRows == 4
MaxEvents == 2
MaxFlagRows == 3

RECURSIVE SeqsUpTo(_, _)
SeqsUpTo(S, n) ==
    IF n = 0 THEN { <<>> }
    ELSE LET shorter == SeqsUpTo(S, n - 1)
         IN  shorter \cup { Append(q, x) : q \in { r \in shorter : Len(r) = n - 1 }, x \in S }

CsvTable(header, rs) == [ header |-> header, rows |-> rs ]

\* a file without a line that is not blank
EmptyCsv == CsvTable(<<>>, <<>>)

\* rows of an hourly presence table: a time stamp and a flag
HourRowSet ==
    { << t, f >> : t \in { T0000, T0100, T0130, T0200 }, f \in { "1", "0" } }
    \cup { << T0400, "1" >>, << "n/a", "1" >>, << T0000, "x" >> }

DayRowSet ==
    { << T0000, "1" >>, << T0130, "1" >>, << T0500NextDay, "1" >>, << T0500NextDay, "0" >>,
      << "n/a", "1" >> }

\* rows of an event table with the columns start, end and duration
EventRowSet ==
    { << t, e, d >> : t \in { T0100, T0130 }, e \in { T0100, T0130, T0200, "" },
                      d \in { "1800", "", "0:00:00", "PT90S" } }
    \cup { << "n/a", T0200, "1800" >> }

\* rows of an event table with the columns start and duration
DurationRowSet ==
    { << t, d >> : t \in { T0100, T0130 }, d \in { "1800", "", "0:00:00", "PT90S" } }
    \cup { << "n/a", "1800" >> }

TablesOf(header, rowSet, n) == { CsvTable(header, rs) : rs \in SeqsUpTo(rowSet, n) }

\* one artifact, or two smaller ones
CsvLists(tables, half) ==
    { << t >> : t \in tables \cup { EmptyCsv } }
    \cup { << t, u >> : t, u \in { v \in tables : Len(v.rows) <= half } }

HourCsvLists(n) == CsvLists(TablesOf(<< "date", "flag" >>, HourRowSet, n), n \div 2)

DayCsvLists(n) == CsvLists(TablesOf(<< "date", "flag" >>, DayRowSet, n), n \div 2)

EventTables(n) ==
    TablesOf(<< "start_time", "end_time", "duration" >>, EventRowSet, n)
    \cup TablesOf(<< "start_time", "duration" >>, DurationRowSet, n)
    \cup TablesOf(<< "note", "duration" >>, { << "x", "1800" >> }, n)

EventCsvLists(n) == CsvLists(EventTables(n), n \div 2)

InitWindows ==
    /\ PreviewIdle
    /\ ClipIdle
    /\ InferIdle
    /\ NameIdle
    /\ GuiStart
    /\ mode \in { "HOUR", "DAY", "EVENT" }
    /\ onlyLongRuns \in IF mode = "HOUR" THEN BOOLEAN ELSE { FALSE }
    /\ localCsvs \in CASE mode = "HOUR" -> HourCsvLists(MaxRows)
                       [] mode = "DAY" -> DayCsvLists(MaxRows)
                       [] OTHER -> EventCsvLists(MaxEvents)
    /\ ci = 1
    /\ combined = <<>>
    /\ thrown = NoError
    /\ wpc = "parse"

NextWindows ==
    \/ ParseHours
    \/ BuildHour
    \/ ParseDays
    \/ BuildDay
    \/ ParseEvents
    \/ BuildEvent
    \/ ParseCsvWindows

SpecWindows == InitWindows /\ [][NextWindows]_vars

----------------------------------------------------------------------------
(* Properties of the window builders *)

Built == wpc = "built"

\* the rows of an event table from which parseEventsFromCsv reads a start
StartRows(csv) ==
    LET startIdx == findColumn(csv.header, StartKeyed, 0)
    IN  IF startIdx < 0 THEN {}
        ELSE { i \in 1..Len(csv.rows) :
                 /\ startIdx < Len(csv.rows[i])
                 /\ parseIsoOrPlainUTC(csv.rows[i][startIdx + 1]) # NoTime }

StartOfRow(csv, i) ==
    parseIsoOrPlainUTC(csv.rows[i][findColumn(csv.header, StartKeyed, 0) + 1])

\* C11: every window a builder produces has start < end, in HOUR, DAY and
\* EVENT mode and from parseCsvWindows; an event row whose start parses is
\* never dropped for its span: it gives a window that starts at its start.
C11_StartBeforeEnd ==
    /\ Built => \A k \in 1..Len(windows) : windows[k][1] < windows[k][2]
    /\ wpc = "csvWindows" => \A k \in 1..Len(combined) : combined[k][1] < combined[k][2]
    /\ (Built /\ mode = "EVENT") =>
          \A c \in 1..Len(localCsvs) : \A i \in StartRows(localCsvs[c]) :
              \E k \in 1..Len(windows) : windows[k][1] = StartOfRow(localCsvs[c], i)
    /\ (wpc = "csvWindows") =>
          \A c \in 1..Len(localCsvs) : \A i \in StartRows(localCsvs[c]) :
              \E k \in 1..Len(combined) : combined[k][1] = StartOfRow(localCsvs[c], i)

\* an event whose end cell is before its start, and one whose duration is
\* zero, have become windows
C11_Witness ==
    /\ Built
    /\ mode = "EVENT"
    /\ Len(localCsvs) = 1
    /\ localCsvs[1].rows = << << T0130, T0100, "" >>, << T0100, "", "0:00:00" >> >>
    /\ Len(windows) = 2

\* the hours of the rows of the artifacts whose date parses and whose flag is 1
FlaggedHours ==
    UNION { { (parseTimeUTC(localCsvs[c].rows[i][1]) \div HourMs) * HourMs :
                i \in { j \in 1..Len(localCsvs[c].rows) :
                          /\ parseTimeUTC(localCsvs[c].rows[j][1]) # NoTime
                          /\ localCsvs[c].rows[j][2] = "1" } } :
            c \in 1..Len(localCsvs) }

Ascending(ws) == \A k \in 1..(Len(ws) - 1) : ws[k][1] < ws[k + 1][1]

\* C12: in HOUR mode without the long-runs policy the windows are one
\* [h, h + 1h) for each distinct hour h of a flagged row whose time stamp
\* parses, ascending, each once; grouping into runs and expanding them loses
\* and adds no hour.
C12_HourWindows ==
    (Built /\ mode = "HOUR" /\ ~onlyLongRuns) =>
        /\ Range(windows) = { << h, h + HourMs >> : h \in FlaggedHours }
        /\ Ascending(windows)

\* rows 00:00 flag 1, 01:00 flag 0, 02:00 flag 1 have given [00:00, 01:00)
\* and [02:00, 03:00)
C12_Witness ==
    /\ Built
    /\ mode = "HOUR"
    /\ ~onlyLongRuns
    /\ Len(localCsvs) = 1
    /\ localCsvs[1].rows = << << T0000, "1" >>, << T0100, "0" >>, << T0200, "1" >> >>
    /\ windows = << << DayMs, DayMs + HourMs >>, << DayMs + 2 * HourMs, DayMs + 3 * HourMs >> >>

\* C13: in HOUR mode with onlyLongRuns there is a window [h, h + 1h) if and
\* only if h is a flagged hour and the hour before or the hour after it is
\* flagged too, ascending, each once.
C13_LongRunsOnly ==
    (Built /\ mode = "HOUR" /\ onlyLongRuns) =>
        /\ Range(windows) =
              { << h, h + HourMs >> :
                  h \in { g \in FlaggedHours :
                            g - HourMs \in FlaggedHours \/ g + HourMs \in FlaggedHours } }
        /\ Ascending(windows)

\* the run 00:00, 01:00 is kept, hour 04:00 alone is dropped
C13_Witness ==
    /\ Built
    /\ mode = "HOUR"
    /\ onlyLongRuns
    /\ FlaggedHours = { DayMs, DayMs + HourMs, DayMs + 4 * HourMs }
    /\ windows = << << DayMs, DayMs + HourMs >>, << DayMs + HourMs, DayMs + 2 * HourMs >> >>

\* the end the window of an event row is to have: the end cell when it
\* parses and is after the start, and otherwise the start plus the seconds
\* of the duration cell when these are positive, plus 60 seconds when not
ResolvedEnd(csv, i) ==
    LET row == csv.rows[i]
        start == StartOfRow(csv, i)
        endIdx == findColumn(csv.header, EndKeyed, 0)
        durIdx == findColumn(csv.header, DurationKeyed, 0)
        endCell == IF endIdx >= 0 /\ endIdx < Len(row)
                   THEN parseIsoOrPlainUTC(row[endIdx + 1]) ELSE NoTime
        durCell == IF durIdx >= 0 /\ durIdx < Len(row) /\ row[durIdx + 1] # ""
                   THEN DurationOfCell(row[durIdx + 1]) ELSE 0
    IN  IF endCell # NoTime /\ endCell > start THEN endCell
        ELSE IF durCell > 0 THEN start + durCell * SecondMs
        ELSE start + 60 * SecondMs

\* C14: in EVENT mode the windows are the [start, resolvedEnd) of the rows
\* whose start parses; a row whose end cell parses but is not after the
\* start ends at the start plus its positive duration.
C14_EventResolvedEnd ==
    (Built /\ mode = "EVENT") =>
        Range(windows) =
            UNION { { << StartOfRow(localCsvs[c], i), ResolvedEnd(localCsvs[c], i) >> :
                        i \in StartRows(localCsvs[c]) } : c \in 1..Len(localCsvs) }

\* C15: in every mode the query range handed to the audio listing is
\* [least start, greatest end) of the windows produced; in EVENT mode tmax is
\* the greatest end also when the last window to start is not the last to end.
C15_QueryRange ==
    (Built /\ windows # <<>>) =>
        /\ tmin # NoTime /\ tmax # NoTime
        /\ \A k \in 1..Len(windows) : tmin <= windows[k][1] /\ windows[k][2] <= tmax
        /\ \E k \in 1..Len(windows) : tmin = windows[k][1]
        /\ \E k \in 1..Len(windows) : tmax = windows[k][2]

\* the columns the mode needs are found in the artifact
ColumnsInferred(csv) ==
    IF mode = "EVENT" THEN findColumn(csv.header, StartKeyed, 0) >= 0
    ELSE LET tCol == detectDatetimeColumn(csv.header, csv.rows)
         IN  tCol >= 0 /\ detectPresenceColumn(csv.header, csv.rows, tCol) >= 0

\* C18: an artifact (with a header) whose datetime column or, in HOUR and
\* DAY mode, presence column cannot be inferred ends the processing in the
\* error "could not detect <X> column": windows are built only when the
\* columns of every artifact were found, and nothing else is thrown.
C18_InferenceFailureIsError ==
    /\ Built => \A c \in 1..Len(localCsvs) :
                   localCsvs[c] # EmptyCsv => ColumnsInferred(localCsvs[c])
    /\ (wpc = "thrown" /\ ci <= Len(localCsvs)) =>
          /\ ~ColumnsInferred(localCsvs[ci])
          /\ thrown \in { "Could not detect hour column", "Could not detect date column",
                          "Could not detect presence column" }

----------------------------------------------------------------------------
(* Column inference on its own: detectDatetimeColumn, then                 *)
(* detectPresenceColumn with the column found as skipCol, as the presence  *)
(* parsers call them                                                       *)

\* tables of two columns whose cells are time stamps, numbers or other text
MixedTables(n) ==
    TablesOf(<< "id", "date" >>,
             { << a, b >> : a \in { T0000, "1", "x" }, b \in { T0000, "x" } } \cup { << "1" >> },
             n)

\* tables of a date column and two columns of flags
FlagTables(n) ==
    UNION { TablesOf(h,
                     { << T0000, f, g >> : f, g \in { "1", "0", "x" } }
                     \cup { << T0000, "", "1" >> },
                     n) :
            h \in { << "date", "a", "b" >>, << "date", "flag", "b" >>,
                    << "date", "a", "flag" >>, << "date", "flag", "presence" >> } }

\* tables of a date column, a column of ones and other text, and a column of zeros
HalfValidTables(n) ==
    TablesOf(<< "date", "a", "b" >>, { << T0000, "1", "0" >>, << T0000, "x", "0" >> }, n)

InitInfer ==
    /\ PreviewIdle
    /\ ClipIdle
    /\ BuilderIdle
    /\ NameIdle
    /\ GuiStart
    /\ table \in MixedTables(MaxRows) \cup FlagTables(MaxFlagRows) \cup HalfValidTables(MaxRows)
    /\ timeCol = NoColumn
    /\ presenceCol = NoColumn
    /\ ipc = "start"

DetectDatetime ==
    /\ ipc = "start"
    /\ timeCol' = detectDatetimeColumn(table.header, table.rows)
    /\ ipc' = "time"
    /\ UNCHANGED <<table, presenceCol>>
    /\ UNCHANGED <<previewVars, clipVars, builderVars, nameVars, guiVars>>

DetectPresence ==
    /\ ipc = "time"
    /\ timeCol >= 0
    /\ presenceCol' = detectPresenceColumn(table.header, table.rows, timeCol)
    /\ ipc' = "presence"
    /\ UNCHANGED <<table, timeCol>>
    /\ UNCHANGED <<previewVars, clipVars, builderVars, nameVars, guiVars>>

NextInfer == DetectDatetime \/ DetectPresence

SpecInfer == InitInfer /\ [][NextInfer]_vars

----------------------------------------------------------------------------
(* Properties of the column inference *)

ColumnsOf(t) == 0..(maxColumnCount(t.header, t.rows) - 1)

Hits(t, col) ==
    Cardinality({ i \in 1..Len(t.rows) :
                    col < Len(t.rows[i]) /\ parseTimeUTC(t.rows[i][col + 1]) # NoTime })

\* C16: the datetime column is the column with the most cells that parse
\* as time stamps among those with at least max(3, ceil(rowCount * 0.05))
\* such cells, the lowest of them when several have the most, and none when
\* no column has that many.
C16_DatetimeColumn ==
    ipc # "start" /\ ipc # "idle" =>
        LET required == max(3, CeilFivePercent(Len(table.rows)))
            enough == { c \in ColumnsOf(table) : Hits(table, c) >= required }
        IN  IF enough = {} THEN timeCol = NoColumn
            ELSE /\ timeCol \in enough
                 /\ \A d \in enough :
                      \/ Hits(table, timeCol) > Hits(table, d)
                      \/ (Hits(table, timeCol) = Hits(table, d) /\ timeCol <= d)

\* the columns detectPresenceColumn chooses from
Candidates(t, skipCol) ==
    { ColumnCounts(t.header, t.rows, c) : c \in ColumnsOf(t) \ { skipCol } }

\* a wins over b by (header hint, most ones, fewest invalid, most valid)
Beats(a, b) ==
    \/ a.headerHint /\ ~b.headerHint
    \/ /\ a.headerHint = b.headerHint
       /\ \/ a.ones > b.ones
          \/ /\ a.ones = b.ones
             /\ \/ a.invalid < b.invalid
                \/ (a.invalid = b.invalid /\ a.valid > b.valid)

\* C17: the presence column is a column other than the datetime column that
\* is not rejected and over which no other such column wins by (header hint,
\* most ones, fewest invalid, most valid); there is none when all are rejected.
C17_PresenceColumn ==
    ipc = "presence" =>
        LET passed == { c \in Candidates(table, timeCol) : ~Rejected(c) }
        IN  IF passed = {} THEN presenceCol = NoColumn
            ELSE /\ \E c \in passed : c.column = presenceCol
                 /\ \A c, d \in passed : c.column = presenceCol => ~Beats(d, c)

\* the second flag column has fewer ones than the first and is chosen for
\* its header
C17_Witness ==
    /\ ipc = "presence"
    /\ table.header = << "date", "a", "flag" >>
    /\ presenceCol = 2
    /\ ColumnCounts(table.header, table.rows, 1).ones > ColumnCounts(table.header, table.rows, 2).ones
    /\ ~Rejected(ColumnCounts(table.header, table.rows, 1))

----------------------------------------------------------------------------
(* The file names the parser is applied to: a prefix, a separator, a time  *)
(* stamp and an extension.                                                  *)

Prefixes == { << >>, << "x" >>, << "c", "i", "0", "1", "_", "0", "2" >> }

Separators == { << "_" >>, << "-" >> }

Stamps ==
    { << "2", "0", "1", "9", "0", "6", "2", "4", "T", "1", "2", "0", "0", "0", "0", "Z" >>,
      << "2", "0", "2", "1", "0", "1", "0", "1", "T", "0", "3", "0", "0", "0", "0", "Z" >>,
      << "1", "9", "7", "0", "0", "1", "0", "1", "T", "0", "0", "0", "0", "0", "0", "Z" >>,
      << "1", "9", "7", "0", "0", "1", "0", "1", "T", "0", "0", "0", "0", "0", "1", "Z" >>,
      << "1", "9", "6", "9", "1", "2", "3", "1", "T", "2", "3", "5", "9", "5", "9", "Z" >>,
      << "2", "0", "1", "9", "0", "6", "2", "4", "t", "1", "2", "0", "0", "0", "0", "Z" >>,
      << "2", "0", "1", "9", "0", "6", "2", "4", "T", "1", "2", "0", "0", "0", "0", "z" >>,
      << "2", "0", "1", "9", "1", "3", "0", "1", "T", "0", "0", "0", "0", "0", "0", "Z" >>,
      << "2", "0", "1", "9", "0", "6", "2", "T", "1", "2", "0", "0", "0", "0", "Z" >>,
      << "1", "9", "0", "6", "2", "4", "1", "2", "0", "0", "0", "0" >>,
      << "6", "9", "0", "1", "0", "1", "0", "0", "0", "0", "0", "0" >>,
      << "7", "0", "0", "1", "0", "1", "0", "0", "0", "0", "0", "0" >>,
      << "7", "0", "0", "1", "0", "1", "0", "0", "0", "0", "0", "1" >>,
      << "9", "9", "1", "2", "3", "1", "2", "3", "5", "9", "5", "9" >>,
      << "0", "0", "0", "2", "2", "9", "1", "2", "0", "0", "0", "0" >>,
      << "1", "9", "0", "6", "2", "4", "1", "2", "0", "0", "0" >>,
      << "1", "9", "0", "6", "2", "4", "1", "2", "0", "0", "0", "0", "0" >>,
      << "1", "9", "0", "6", "2", "4", "l", "2", "0", "0", "0", "0" >> }

Extensions ==
    { << ".", "f", "l", "a", "c" >>,
      << ".", "F", "L", "A", "C" >>,
      << ".", "w", "a", "v" >>,
      << ".", "m", "p", "3" >>,
      << >> }

FileNames(prefixes) ==
    { p \o s \o t \o e : p \in prefixes, s \in Separators, t \in Stamps, e \in Extensions }

InitName ==
    /\ PreviewIdle
    /\ ClipIdle
    /\ BuilderIdle
    /\ InferIdle
    /\ GuiStart
    /\ fileName \in FileNames(Prefixes)
    /\ outUtc = NoStart
    /\ npc = "start"

\* a direct call, as the self-tests make it
ParseName ==
    /\ npc = "start"
    /\ outUtc' = parseAudioStartFromName(fileName)
    /\ npc' = "parsed"
    /\ UNCHANGED fileName
    /\ UNCHANGED <<previewVars, clipVars, builderVars, inferVars, guiVars>>

\* one iteration of the loop of listAudioInFolder over a line gs://.../fileName:
\* a line that does not end in .flac is passed over, a name that does not
\* parse is logged and passed over, and the loop goes on to the next line
ListLine ==
    /\ npc = "start"
    /\ IF ~EndsWithIgnoreCase(fileName, << ".", "f", "l", "a", "c" >>)
       THEN /\ npc' = "ignored"
            /\ UNCHANGED outUtc
       ELSE /\ outUtc' = parseAudioStartFromName(fileName)
            /\ npc' = IF outUtc'.ok THEN "candidate" ELSE "skipped"
    /\ UNCHANGED fileName
    /\ UNCHANGED <<previewVars, clipVars, builderVars, inferVars, guiVars>>

NextName == ParseName \/ ListLine

SpecName == InitName /\ [][NextName]_vars

----------------------------------------------------------------------------
(* Properties of the file name parser *)

\* the position of the last "." of a name, 0 when it has none
RECURSIVE DotAt(_)
DotAt(s) == IF s = <<>> \/ s[Len(s)] = "." THEN Len(s) ELSE DotAt(SubSeq(s, 1, Len(s) - 1))

HasExtension(s) == DotAt(s) > 0 /\ DotAt(s) < Len(s)

StemOf(s) == SubSeq(s, 1, DotAt(s) - 1)

\* ..._YYYYMMDDThhmmssZ.<ext>
GrammarIso(s) ==
    /\ HasExtension(s)
    /\ Len(StemOf(s)) >= 17
    /\ LET t == LastChars(StemOf(s), 17)
       IN  /\ t[1] = "_"
           /\ \A i \in (2..9) \cup (11..16) : IsDigit(t[i])
           /\ t[10] = "T"
           /\ t[17] = "Z"

\* ..._YYMMDDhhmmss.<ext>
GrammarShort(s) ==
    /\ HasExtension(s)
    /\ Len(StemOf(s)) >= 13
    /\ LET t == LastChars(StemOf(s), 13)
       IN  /\ t[1] = "_"
           /\ \A i \in 2..13 : IsDigit(t[i])

Number(s, from, to) == ScanInt(SubSeq(s, from, to))

\* year, month, day, hour, minute, second as the grammar reads them
FieldsOf(s) ==
    IF GrammarIso(s)
    THEN LET t == LastChars(StemOf(s), 16)
         IN  << Number(t, 1, 4), Number(t, 5, 6), Number(t, 7, 8),
                Number(t, 10, 11), Number(t, 12, 13), Number(t, 14, 15) >>
    ELSE LET t == LastChars(StemOf(s), 12)
             YY == Number(t, 1, 2)
         IN  << IF YY <= 69 THEN 2000 + YY ELSE 1900 + YY, Number(t, 3, 4), Number(t, 5, 6),
                Number(t, 7, 8), Number(t, 9, 10), Number(t, 11, 12) >>

DaysInMonth(y, m) ==
    IF m = 2 THEN (IF IsLeapYear(y) THEN 29 ELSE 28)
    ELSE IF m \in {4, 6, 9, 11} THEN 30 ELSE 31

ValidFields(f) ==
    /\ f[2] \in 1..12
    /\ f[3] \in 1..DaysInMonth(f[1], f[2])
    /\ f[4] <= 23 /\ f[5] <= 59 /\ f[6] <= 59

\* days from 1970-01-01 to a date of the civil calendar, by counting from
\* 0000-03-01 in eras of 400 years
DaysFromCivil(y, m, d) ==
    LET yy == IF m <= 2 THEN y - 1 ELSE y
        era == yy \div 400
        yoe == yy - era * 400
        doy == ((153 * (IF m > 2 THEN m - 3 ELSE m + 9) + 2) \div 5) + d - 1
        doe == yoe * 365 + (yoe \div 4) - (yoe \div 100) + doy
    IN  era * 146097 + doe - 719468

UtcInstantOf(f) ==
    [ days |-> DaysFromCivil(f[1], f[2], f[3]),
      seconds |-> f[4] * 3600 + f[5] * 60 + f[6] ]

\* C19: parseAudioStartFromName succeeds on every name that ends in
\* _YYYYMMDDThhmmssZ.<ext> or _YYMMDDhhmmss.<ext> and returns the UTC instant
\* of the fields, a two-digit year read as 2000+YY up to 69 and as 1900+YY
\* from 70 on; it fails on every other name, and the listing passes over
\* such a name and goes on.
C19_NameParser ==
    LET inGrammar == GrammarIso(fileName) \/ GrammarShort(fileName)
        f == FieldsOf(fileName)
    IN  /\ npc = "parsed" /\ inGrammar =>
              /\ outUtc.ok
              /\ ValidFields(f) =>
                    /\ outUtc.days = UtcInstantOf(f).days
                    /\ outUtc.seconds = UtcInstantOf(f).seconds
        /\ npc = "parsed" /\ ~inGrammar => ~outUtc.ok
        /\ npc = "candidate" => inGrammar
        /\ npc = "skipped" => ~inGrammar

----------------------------------------------------------------------------
(* Properties of clipGroups: the sources of a window *)

\* the step of PlanWindow
PlansWindow == cpc = "window" /\ summary'.totalWindows = summary.totalWindows + 1

\* the step added a row of this status to the manifest
SkipsWith(status) ==
    /\ Len(manifest') = Len(manifest) + 1
    /\ manifest'[Len(manifest')].status = status

\* the local files that start at or before t
StartedBy(t) == { i \in 1..Len(local) : local[i].start <= t }

Last(S) == CHOOSE i \in S : \A j \in S : j <= i

----------------------------------------------------------------------------
(* Properties of minimalFilesForWindows: the identifier lists *)

Elements(s) == { s[i] : i \in 1..Len(s) }

NoDuplicate(s) == \A i, j \in 1..Len(s) : i # j => s[i] # s[j]

\* C22: outUrls and outNames are exactly the union of the identifiers mapped
\* to the individual windows, hold no identifier twice and are sorted.
C22_IdentifierLists ==
    Selected =>
        /\ Elements(outNames) = UNION { Elements(rows[i].names) : i \in 1..Len(rows) }
        /\ Elements(outUrls) = UNION { Elements(rows[i].urls) : i \in 1..Len(rows) }
        /\ NoDuplicate(outNames) /\ NoDuplicate(outUrls)
        /\ \A i, j \in 1..Len(outNames) :
             i < j => NameRank(toLowerCase(outNames[i])) <= NameRank(toLowerCase(outNames[j]))
        /\ \A i, j \in 1..Len(outUrls) :
             i < j => UrlRank(<< outUrls[i][1], toLowerCase(outUrls[i][2]) >>)
                        <= UrlRank(<< outUrls[j][1], toLowerCase(outUrls[j][2]) >>)

----------------------------------------------------------------------------
(* Properties of the EVENT windows of a group *)

\* C23: the EVENT windows of a group, combined over all its artifacts, hold
\* no (start, end) pair twice and ascend by (start, end).
C23_EventWindowsSortedUnique ==
    (Built /\ mode = "EVENT") =>
        /\ \A i, j \in 1..Len(windows) : i # j => windows[i] # windows[j]
        /\ \A k \in 1..(Len(windows) - 1) : WindowLess(windows[k], windows[k + 1])

\* two artifacts gave the same event, which is one window
C23_Witness ==
    /\ Built /\ mode = "EVENT"
    /\ Len(localCsvs) = 2
    /\ Len(combined) = 2 /\ combined[1] = combined[2]
    /\ Len(windows) = 1

----------------------------------------------------------------------------
(* Properties of clipGroups: the order of the cuts *)

Predecessor == local[work.current]
Successor == local[work.next]

CutOfPartA ==
    FfmpegCut(Predecessor.name, Window[1] - Predecessor.start,
              Predecessor.end - Window[1], TempA)
CutOfPartB == FfmpegCut(Successor.name, 0, Window[2] - Successor.start, TempB)
ConcatOfParts ==
    [ tool |-> "ffmpegConcat", wav1 |-> TempA, wav2 |-> TempB, out |-> OutFile ]
CutOfWindow ==
    FfmpegCut(Predecessor.name, Window[1] - Predecessor.start,
              Window[2] - Window[1], OutFile)

TwoSourceSteps == << CutOfPartA, CutOfPartB, ConcatOfParts >>

InTwoSources == cpc \in { "cutA", "cutB", "concat", "cleanup" }

\* a tool was called and returned an error message
StepFails ==
    /\ Len(calls') = Len(calls) + 1
    /\ work'.errMessage # ""

\* C24: for a window that ends after its predecessor and has a selected
\* successor, the tools are called in the order: cut of the predecessor from
\* window.start - predecessor.start for predecessor.end - window.start, cut
\* of the successor from 0 for window.end - successor.start, concat of part A
\* and part B; every call is the next of these three, no call is made after
\* one that failed, and a window that ends within its predecessor gets the
\* single cut from window.start - predecessor.start for its whole duration.
C24_CutOrder ==
    /\ [](InTwoSources =>
            /\ work.next # 0
            /\ Predecessor.end < Window[2]
            /\ Successor.name \in selectedSet
            /\ Len(calls) <= 3
            /\ calls = SubSeq(TwoSourceSteps, 1, Len(calls))
            /\ cpc = "cutA" => calls = <<>>
            /\ cpc = "cutB" => Len(calls) = 1 /\ work.errMessage = ""
            /\ cpc = "concat" => Len(calls) = 2 /\ work.errMessage = ""
            /\ (cpc = "cleanup" /\ Len(calls) < 3) => work.errMessage # "")
    /\ [](cpc \in { "cut", "check" } /\ Predecessor.end >= Window[2] =>
            /\ cpc = "cut" => calls = <<>>
            /\ cpc = "check" => calls = << CutOfWindow >>)
    /\ [][(InTwoSources /\ StepFails) => cpc' = "cleanup"]_vars
    /\ [][cpc = "cleanup" => cpc' = "check" /\ calls' = calls]_vars
    /\ [][(cpc = "check" /\ work.errMessage # "") => calls' = calls]_vars

\* the cut of the successor failed after the cut of the predecessor: the
\* window of half an hour before and after the boundary got no concat
C24_Witness ==
    /\ cpc = "cleanup"
    /\ calls = << CutOfPartA, CutOfPartB >>
    /\ work.errMessage # ""
    /\ CutOfPartA.start = HalfHourMs /\ CutOfPartA.duration = HalfHourMs
    /\ CutOfPartB.start = 0 /\ CutOfPartB.duration = HalfHourMs

----------------------------------------------------------------------------
(* Properties of minimalFilesForWindows: at most two identifiers *)

\* the index entries that start at or before t
StartedRows(t) == { j \in RowIds : audioRows[j].startUtc <= t }

\* C25: a window is never mapped to more than two identifiers: the first is
\* the index entry with the greatest start at or before the window's start,
\* the second, when there is one, the entry that follows it in the index; a
\* window that ends after both is mapped to these two alone, and a window
\* with a first identifier is not counted as unmatched.
C25_AtMostTwo ==
    Selected =>
        /\ \A i \in DOMAIN rows :
            LET w == windows[i]
                names == rows[i].names
                p == Last(StartedRows(w[1]))
            IN  /\ Len(names) <= 2
                /\ names # <<>> <=> StartedRows(w[1]) # {}
                /\ names # <<>> =>
                    /\ names[1] = audioRows[p].fname
                    /\ \A j \in RowIds : audioRows[j].startUtc <= w[1]
                                            => audioRows[j].startUtc <= audioRows[p].startUtc
                    /\ Len(names) = 2 =>
                        /\ p + 1 \in RowIds
                        /\ names[2] = audioRows[p + 1].fname
                    /\ (p + 1 \in RowIds /\ audioRows[p].endUtc < w[2]) => Len(names) = 2
        /\ unmatchedCount = Cardinality({ i \in DOMAIN rows : rows[i].names = <<>> })

\* a window that ends after both of its recordings, with a third recording
\* behind them in the index, has two identifiers and is not unmatched
C25_Witness ==
    /\ Selected
    /\ unmatchedCount = 0
    /\ \E i \in DOMAIN rows :
        LET p == Last(StartedRows(windows[i][1]))
        IN  /\ Len(rows[i].names) = 2
            /\ audioRows[p].endUtc < windows[i][2]
            /\ audioRows[p + 1].endUtc < windows[i][2]
            /\ p + 2 \in RowIds

----------------------------------------------------------------------------
(* Properties of the column inference: the columns passed over *)

\* no 1, no valid cell, or more invalid cells than half the valid ones
MoreInvalidThanHalfValid(c) ==
    \/ c.ones = 0
    \/ c.valid = 0
    \/ 2 * c.invalid > c.valid

\* C26: a column is passed over exactly when it has no 1-valued cell, no
\* valid cell, or more invalid non-empty cells than half its valid cells:
\* the column returned is never such a column, and a column is returned
\* whenever some column other than the datetime column is not such a column.
C26_RejectionRule ==
    ipc = "presence" =>
        LET kept == { c \in Candidates(table, timeCol) : ~MoreInvalidThanHalfValid(c) }
        IN  /\ presenceCol # NoColumn => \E c \in kept : c.column = presenceCol
            /\ kept # {} => presenceCol # NoColumn

----------------------------------------------------------------------------
(* Properties of the counters returned *)

WrittenRows(rs) == { k \in 1..Len(rs) : rs[k].status = "written" }

\* C27: when clipGroups has returned, summary.written + summary.skipped is
\* summary.totalWindows, summary.manifestRows has totalWindows rows and as
\* many of them have the status written as summary.written says; when
\* previewGroup has selected the files, matchedWindows + unmatchedWindows is
\* the number of windows.
C27_CountsAgree ==
    /\ cpc = "done" =>
        /\ summary.written + summary.skipped = summary.totalWindows
        /\ Len(summary.manifestRows) = summary.totalWindows
        /\ Cardinality(WrittenRows(summary.manifestRows)) = summary.written
    /\ Selected =>
        /\ matchedWindows + unmatchedWindows = Len(windows)
        /\ matchedWindows >= 0 /\ unmatchedWindows >= 0

\* clipGroups returned after two groups with written and skipped windows
C27_Witness ==
    /\ cpc = "done"
    /\ Len(groups) = 2
    /\ \A i \in 1..2 : Len(manifestFiles[groups[i]].rows) >= 1
    /\ WrittenRows(manifestFiles[groups[1]].rows) # {}
    /\ WrittenRows(manifestFiles[groups[2]].rows) # {}
    /\ summary.skipped >= 1
    /\ summary.totalWindows >= 3

----------------------------------------------------------------------------
(* Properties of clipGroups: the two sources of a window *)

partA == Predecessor.end - Window[1]
partB == Window[2] - Successor.start

NeverStatuses == { "invalid_span", "not_selected", "requires_next" }

AllRows ==
    Range(manifest) \cup Range(summary.manifestRows)
    \cup UNION { Range(manifestFiles[g].rows) : g \in GroupNames }

\* C28: in the two-source branch the predecessor ends where the successor
\* starts, partA and partB are positive and add up to the duration of the
\* window; no row has the status invalid_span, not_selected or
\* requires_next, and every file of the local index is a selected one.
C28_TwoSourcesContiguous ==
    /\ InTwoSources =>
        /\ Predecessor.end = Successor.start
        /\ partA > 0 /\ partB > 0
        /\ partA + partB = Window[2] - Window[1]
    /\ \A r \in AllRows : r.status \notin NeverStatuses
    /\ \A i \in 1..Len(local) : local[i].name \in selectedSet

\* the window starts in the predecessor and ends in the successor
C28_Witness ==
    /\ cpc = "cutA"
    /\ Predecessor.start < Window[1]
    /\ Window[1] < Successor.start
    /\ Successor.start < Window[2]
    /\ Window[2] < Successor.end

----------------------------------------------------------------------------
(* Properties of a preview followed by clipGroups *)

\* clipGroups works on the files of the preview, and all of them are local
ClipsThePreview ==
    /\ Selected
    /\ groups # <<>>
    /\ InWindows
    /\ Len(local) = Len(outNames)

\* C29: when the local files are exactly the files minimalFilesForWindows
\* chose for the windows, every window is cut from the sources the selector
\* mapped it to: the same predecessor, and the same successor exactly when
\* the selector chose one.
C29_SameSources ==
    ClipsThePreview =>
        \A k \in 1..Len(manifest) : manifest[k].sourceNames = rows[k].names

----------------------------------------------------------------------------
(* MainComponent: the four buttons, the background threads they start and  *)
(* the callbacks these post to the message thread.  A handler and a        *)
(* callback run on the message thread, one at a time; a background thread  *)
(* runs beside them.  A disabled button gets no click.                     *)

Task(kind, todo, at) == [ kind |-> kind, todo |-> todo, at |-> at ]

Callback(kind, names, name, isLast, hasFiles) ==
    [ kind |-> kind, names |-> names, name |-> name, isLast |-> isLast,
      hasFiles |-> hasFiles ]

FreeSlots == { s \in 1..MaxTasks : tasks[s] = NoTask }

\* std::thread(std::move(task)).detach()
runInBackground(task) ==
    /\ FreeSlots # {}
    /\ tasks' = [tasks EXCEPT ![CHOOSE s \in FreeSlots : \A t \in FreeSlots : s <= t] = task]

\* juce::MessageManager::callAsync by the thread in slot s, which goes on as next
callAsync(s, cb, next) ==
    /\ Len(mq) < MaxQueue
    /\ mq' = Append(mq, cb)
    /\ tasks' = [tasks EXCEPT ![s] = next]

OtherIdle ==
    UNCHANGED <<previewVars, clipVars, builderVars, inferVars, nameVars>>

handleListSets ==
    /\ buttons.list
    /\ buttons' = [ list |-> FALSE, preview |-> FALSE, download |-> FALSE, clip |-> FALSE ]
    /\ runInBackground(Task("list", <<>>, "run"))
    /\ UNCHANGED <<groupEntries, fileEntries, previewCache, mq>>
    /\ OtherIdle

\* the thread of handleListSets: listProductGroups returns the sets or throws
ListTask ==
    /\ \E s \in 1..MaxTasks :
        /\ tasks[s].kind = "list"
        /\ \E cb \in { Callback("listed", {}, "", FALSE, FALSE),
                       Callback("listed", GroupNames, "", FALSE, FALSE),
                       Callback("listFailed", {}, "", FALSE, FALSE) } :
            callAsync(s, cb, NoTask)
    /\ UNCHANGED <<buttons, groupEntries, fileEntries, previewCache>>
    /\ OtherIdle

onGroupToggled ==
    /\ \E g \in groupEntries.listed :
        groupEntries' = [groupEntries EXCEPT !.selected =
                            IF g \in @ THEN @ \ { g } ELSE @ \cup { g }]
    /\ UNCHANGED <<buttons, fileEntries, previewCache, tasks, mq>>
    /\ OtherIdle

\* the selected groups in the order of the list
GroupsToPreview ==
    SelectSeq(<< "g1", "g2" >>, LAMBDA g : g \in groupEntries.selected)

handlePreview ==
    /\ buttons.preview
    /\ groupEntries.selected # {}
    /\ buttons' = [buttons EXCEPT !.preview = FALSE, !.download = FALSE, !.clip = FALSE]
    /\ runInBackground(Task("preview", GroupsToPreview, "run"))
    /\ UNCHANGED <<groupEntries, fileEntries, previewCache, mq>>
    /\ OtherIdle

\* the thread of handlePreview, one group: previewGroup returns a preview
\* with or without files, or throws; the loop goes on in either case
PreviewTask ==
    /\ \E s \in 1..MaxTasks :
        /\ tasks[s].kind = "preview"
        /\ LET name == Head(tasks[s].todo)
               isLast == Len(tasks[s].todo) = 1
               next == IF isLast THEN NoTask
                       ELSE Task("preview", Tail(tasks[s].todo), "run")
           IN  \E cb \in { Callback("previewed", {}, name, isLast, TRUE),
                           Callback("previewed", {}, name, isLast, FALSE),
                           Callback("previewFailed", {}, "", FALSE, FALSE) } :
                   callAsync(s, cb, next)
    /\ UNCHANGED <<buttons, groupEntries, fileEntries, previewCache>>
    /\ OtherIdle

handleDownload ==
    /\ buttons.download
    /\ fileEntries
    /\ buttons' = [buttons EXCEPT !.download = FALSE]
    /\ runInBackground(Task("download", <<>>, "run"))
    /\ UNCHANGED <<groupEntries, fileEntries, previewCache, mq>>
    /\ OtherIdle

\* the thread of handleDownload: downloadFiles returns or throws
DownloadTask ==
    /\ \E s \in 1..MaxTasks :
        /\ tasks[s].kind = "download"
        /\ \E kind \in { "downloaded", "downloadFailed" } :
            callAsync(s, Callback(kind, {}, "", FALSE, FALSE), NoTask)
    /\ UNCHANGED <<buttons, groupEntries, fileEntries, previewCache>>
    /\ OtherIdle

handleClip ==
    /\ buttons.clip
    /\ groupEntries.selected # {}
    /\ fileEntries
    /\ buttons' = [buttons EXCEPT !.clip = FALSE]
    /\ runInBackground(Task("clip", <<>>, "run"))
    /\ UNCHANGED <<groupEntries, fileEntries, previewCache, mq>>
    /\ OtherIdle

\* the thread of handleClip calls clipGroups with a reference to previewCache
ClipTaskCalls ==
    /\ \E s \in 1..MaxTasks :
        /\ tasks[s] = Task("clip", <<>>, "run")
        /\ tasks' = [tasks EXCEPT ![s] = Task("clip", <<>>, "clipGroups")]
    /\ UNCHANGED <<buttons, groupEntries, fileEntries, previewCache, mq>>
    /\ OtherIdle

\* clipGroups returns its summary or throws
ClipTaskReturns ==
    /\ \E s \in 1..MaxTasks :
        /\ tasks[s] = Task("clip", <<>>, "clipGroups")
        /\ \E kind \in { "clipped", "clipFailed" } :
            callAsync(s, Callback(kind, {}, "", FALSE, FALSE), NoTask)
    /\ UNCHANGED <<buttons, groupEntries, fileEntries, previewCache>>
    /\ OtherIdle

\* the message thread runs the callback posted first
RunCallback ==
    /\ mq # <<>>
    /\ mq' = Tail(mq)
    /\ LET cb == Head(mq)
       IN  CASE cb.kind = "listed" ->
                  /\ groupEntries' = [ listed |-> cb.names, selected |-> {} ]
                  /\ buttons' = [buttons EXCEPT !.preview = cb.names # {}, !.list = TRUE]
                  /\ UNCHANGED <<fileEntries, previewCache>>
             [] cb.kind = "previewed" ->
                  /\ previewCache' = previewCache \cup { cb.name }
                  /\ fileEntries' = cb.hasFiles
                  /\ buttons' = [buttons EXCEPT
                                    !.preview = IF cb.isLast THEN TRUE ELSE @,
                                    !.download = cb.hasFiles]
                  /\ UNCHANGED groupEntries
             [] cb.kind = "downloaded" ->
                  /\ buttons' = [buttons EXCEPT !.download = TRUE, !.clip = TRUE]
                  /\ UNCHANGED <<groupEntries, fileEntries, previewCache>>
             [] cb.kind = "listFailed" ->
                  /\ buttons' = [buttons EXCEPT !.list = TRUE]
                  /\ UNCHANGED <<groupEntries, fileEntries, previewCache>>
             [] cb.kind = "previewFailed" ->
                  /\ buttons' = [buttons EXCEPT !.preview = TRUE]
                  /\ UNCHANGED <<groupEntries, fileEntries, previewCache>>
             [] cb.kind = "downloadFailed" ->
                  /\ buttons' = [buttons EXCEPT !.download = TRUE]
                  /\ UNCHANGED <<groupEntries, fileEntries, previewCache>>
             [] cb.kind \in { "clipped", "clipFailed" } ->
                  /\ buttons' = [buttons EXCEPT !.clip = TRUE]
                  /\ UNCHANGED <<groupEntries, fileEntries, previewCache>>
    /\ UNCHANGED tasks
    /\ OtherIdle

InitGui ==
    /\ PreviewIdle
    /\ ClipIdle
    /\ BuilderIdle
    /\ InferIdle
    /\ NameIdle
    /\ GuiStart

NextGui ==
    \/ handleListSets
    \/ ListTask
    \/ onGroupToggled
    \/ handlePreview
    \/ PreviewTask
    \/ handleDownload
    \/ DownloadTask
    \/ handleClip
    \/ ClipTaskCalls
    \/ ClipTaskReturns
    \/ RunCallback

SpecGui == InitGui /\ [][NextGui]_vars

----------------------------------------------------------------------------
(* Properties of MainComponent *)

\* a background thread is inside clipGroups
ClipGroupsRunning == \E s \in 1..MaxTasks : tasks[s] = Task("clip", <<>>, "clipGroups")

\* the step is the callback of a finished preview, which assigns previewCache[name]
WritesPreviewCache ==
    /\ mq # <<>>
    /\ Head(mq).kind = "previewed"
    /\ mq' = Tail(mq)

\* C30: previewCache is never written while a background thread started by
\* handleClip is inside clipGroups, which reads it.
C30_CacheNotWrittenWhileClipping ==
    [][WritesPreviewCache => ~ClipGroupsRunning]_vars

============================================================================
